---------------------------- MODULE Spec2Model ----------------------------
(***************************************************************************)
(* A model of the uuid-remapper format pipeline: the text UUID scanner     *)
(* (src/src/text.rs) and the streaming NBT visitor (src/src/nbt.rs).       *)
(*                                                                         *)
(* Bytes are integers 0..255.  A Uuid is its 16 bytes in big-endian order  *)
(* (what Uuid::as_bytes returns); a u128 is its 32 base-16 digits, most    *)
(* significant first, because the model checker's integers are 32 bits.    *)
(* A callback Fn(Uuid) -> Option<Uuid> is a finite table: a set of pairs    *)
(* <<from, to>>; outside the table it returns None.                        *)
(***************************************************************************)
EXTENDS Integers, Sequences, FiniteSets, TLC

VARIABLES
    nbt,        \* visit_nbt: the buffer being visited (&mut [u8])
    cursor,     \* visit_nbt: cursor, 0-based
    stack,      \* visit_nbt: the Vec of VisitFrame
    nstate,     \* visit_nbt position: "start", "run", or how it ended
    ninput,     \* history: the buffer visit_nbt was called with
    ncalls,     \* history: the callback invocations visit_nbt made
    text,       \* visit_text: the buffer being scanned (&mut [u8])
    cb,         \* the callback table handed to visit_text / visit_nbt
    tphase,     \* visit_text driver position: "start", "scanned", "rescanned"
    tinput,     \* history: the buffer before the first scan
    tmid,       \* history: the buffer between the dashed and the dashless pass
    tonce,      \* history: the buffer after the first scan
    tcalls,     \* history: the callback invocations of the latest scan
    content,    \* Anvil.content: the region image (Vec<u8>), as runs of bytes
    path,       \* Anvil.path: the region coordinates of the file name r.<rx>.<rz>.mca
    files,      \* the external chunk files c.<X>.<Z>.mcc of the directory
    index,      \* AnvilIter.index of the iterator borrowed from the region
    aphase,     \* region position: "idle", "ready" or "iter" (an iterator is borrowed)
    items,      \* history: what the current or latest iterator yielded
    writes,     \* history: the Anvil::write calls made and how each returned
    stasks,     \* split_tasks: the task list (tasks)
    scount,     \* split_tasks: the number of slices asked for (count)
    sret,       \* split_tasks: the slices pushed so far (ret)
    sstart,     \* split_tasks: start
    world,      \* the files of the world directory: name, kind of content, content
    world0,     \* history: the files before the first task
    queue,      \* main.rs 108: for each worker, the tasks of its shard
    workers,    \* run_tasks: for each worker, where it is in remap_file
    fslog,      \* history: the set of file system calls made, with worker and path
    results     \* history: how each remap_file call returned (a set)

textVars == <<text, cb, tphase, tinput, tmid, tonce, tcalls>>

nbtVars == <<nbt, cursor, stack, nstate, ninput, ncalls>>

anvilVars == <<content, path, files, index, aphase, items, writes>>

splitVars == <<stasks, scount, sret, sstart>>

worldVars == <<world, world0, queue, workers, fslog, results>>

vars == <<nbt, cursor, stack, nstate, ninput, ncalls,
          text, cb, tphase, tinput, tmid, tonce, tcalls,
          content, path, files, index, aphase, items, writes,
          stasks, scount, sret, sstart,
          world, world0, queue, workers, fslog, results>>

\* the parts of the program that a specification leaves out are at rest
SplitIdle == stasks = <<>> /\ scount = 0 /\ sret = <<>> /\ sstart = 0
WorldIdle ==
    /\ world = {} /\ world0 = {} /\ queue = <<>> /\ workers = <<>>
    /\ fslog = {} /\ results = {}

-----------------------------------------------------------------------------
(* Bounds of the model                                                     *)

\* the number of segments a scanned buffer is composed of
MaxSegs == 3

\* the number of Anvil::write calls made on a region
MaxWrites == 3

\* the length of the task list given to split_tasks
MaxTasks == 10

\* the number of slices asked of split_tasks
MaxCount == 4

\* files of a world, and workers that share them
MaxFiles == 2
MaxWorkers == 2

\* chunks of a region file
MaxChunks == 2

\* the number of fragments between the header and the END of a root compound
MaxFrags == 2

\* the number of fragments of the root compounds that are also cut short
MaxTruncFrags == 1

-----------------------------------------------------------------------------
(* Byte-level helpers                                                      *)

Dash == 45

Range(s) == {s[i] : i \in 1..Len(s)}

RECURSIVE Concat(_)
Concat(ss) == IF ss = <<>> THEN <<>> ELSE Head(ss) \o Concat(Tail(ss))

\* text.rs is_digit: lowercase hexadecimal digits only
is_digit(c) == (c >= 48 /\ c <= 57) \/ (c >= 97 /\ c <= 102)

\* text.rs from_hex_char on a byte is_digit accepts
from_hex_char(c) == IF c >= 48 /\ c <= 57 THEN c - 48 ELSE c - 97 + 10

to_hex_char_upper(c) == IF c < 10 THEN 48 + c ELSE 65 + c - 10

\* text.rs to_hex_char
to_hex_char(c) == IF c < 10 THEN 48 + c ELSE 97 + c - 10

\* text.rs from_hex: fold the hex digits of str into a u128, skipping every
\* other byte; the u128 keeps the low 128 bits (the last 32 digits)
from_hex(str) ==
    LET digs == SelectSeq(str, is_digit)
        nibs == [k \in 1..Len(digs) |-> from_hex_char(digs[k])]
        n    == Len(nibs)
    IN  IF n >= 32 THEN SubSeq(nibs, n - 31, n)
        ELSE [k \in 1..(32 - n) |-> 0] \o nibs

\* Uuid::from_u128: the big-endian bytes of the value
from_u128(nibs) == [k \in 1..16 |-> nibs[2 * k - 1] * 16 + nibs[2 * k]]

\* The callback: Some(to) for a uuid of the table, None otherwise
Call(f, uuid) ==
    IF \E p \in f : p[1] = uuid
    THEN [some |-> TRUE, val |-> (CHOOSE p \in f : p[1] = uuid)[2]]
    ELSE [some |-> FALSE, val |-> uuid]

hex_at_swapped(new_uuid, ptr) ==
    IF ptr % 2 = 0
    THEN to_hex_char(new_uuid[(ptr \div 2) + 1] % 16)
    ELSE to_hex_char(new_uuid[(ptr \div 2) + 1] \div 16)

\* text.rs 79-83 and 104-108: the hex digit written for digit index ptr (from 0)
hex_at(new_uuid, ptr) ==
    IF ptr % 2 = 0
    THEN to_hex_char(new_uuid[(ptr \div 2) + 1] \div 16)
    ELSE to_hex_char(new_uuid[(ptr \div 2) + 1] % 16)

\* text.rs 74-85: overwrite the hex positions of the 36 bytes from s, leaving
\* every '-' in place; ptr counts the bytes that were not skipped
write_dashed(t, s, new_uuid) ==
    [j \in 1..Len(t) |->
        IF j < s \/ j > s + 35 \/ t[j] = Dash THEN t[j]
        ELSE hex_at(new_uuid, Cardinality({k \in s..(j - 1) : t[k] # Dash}))]

\* text.rs 103-109: overwrite the 32 bytes from s
write_dashless(t, s, new_uuid) ==
    [j \in 1..Len(t) |->
        IF j < s \/ j > s + 31 THEN t[j] ELSE hex_at(new_uuid, j - s)]

dfa_trans_table_loose(matched, c) ==
    CASE matched = 8  -> IF c = Dash THEN 9 ELSE 8
      [] matched = 13 -> IF c = Dash THEN 14 ELSE 5
      [] matched = 18 -> IF c = Dash THEN 19 ELSE 5
      [] matched = 23 -> IF c = Dash THEN 24 ELSE 5
      [] OTHER        -> matched + 1

\* text.rs 47-68: the transition of the dashed matcher on a hex digit or '-'
dfa_trans_table(matched, c) ==
    CASE matched = 8  -> IF c = Dash THEN 9 ELSE 8
      [] matched = 13 -> IF c = Dash THEN 14 ELSE 5
      [] matched = 18 -> IF c = Dash THEN 19 ELSE 5
      [] matched = 23 -> IF c = Dash THEN 24 ELSE 5
      [] OTHER        -> IF is_digit(c) THEN matched + 1 ELSE 0

\* One callback invocation, as the scanner makes it
CallRec(kind, at, uuid, ret) == [kind |-> kind, at |-> at, uuid |-> uuid, ret |-> ret]

\* The same for a visit_nbt site; at2 is the position of the Least half of a pair
NbtCallRec(kind, at, at2, uuid, ret) ==
    [kind |-> kind, at |-> at, at2 |-> at2, uuid |-> uuid, ret |-> ret]

\* task.rs 24-30: what the callback invocations add to stat, the number of
\* those that returned Some
stat(calls) == Cardinality({j \in DOMAIN calls : calls[j].ret.some})

\* The state of a pass over the buffer: the text, the matcher and the calls
PassState(t, matched, calls) == [text |-> t, matched |-> matched, calls |-> calls]

\* text.rs 41-87: the body of the dashed loop at byte i (1-based)
dashed_step(s, i, f) ==
    LET t == s.text IN
    IF ~is_digit(t[i]) /\ t[i] # Dash THEN PassState(t, 0, s.calls)
    ELSE LET m == dfa_trans_table(s.matched, t[i]) IN
         IF m # 36 THEN PassState(t, m, s.calls)
         ELSE LET uuid == from_u128(from_hex(SubSeq(t, i - 35, i)))
                  ret  == Call(f, uuid)
              IN  PassState(IF ret.some THEN write_dashed(t, i - 35, ret.val) ELSE t,
                            0, Append(s.calls, CallRec("dashed", i - 35, uuid, ret)))

dashless_step_noreset(s, i, f) ==
    LET t == s.text IN
    IF ~is_digit(t[i]) THEN PassState(t, 0, s.calls)
    ELSE IF s.matched + 1 # 32 THEN PassState(t, s.matched + 1, s.calls)
    ELSE LET uuid == from_u128(from_hex(SubSeq(t, i - 31, i)))
             ret  == Call(f, uuid)
         IN  PassState(IF ret.some THEN write_dashless(t, i - 31, ret.val) ELSE t,
                       s.matched + 1, Append(s.calls, CallRec("dashless", i - 31, uuid, ret)))

\* text.rs 92-111: the body of the dashless loop at byte i (1-based)
dashless_step(s, i, f) ==
    LET t == s.text IN
    IF ~is_digit(t[i]) THEN PassState(t, 0, s.calls)
    ELSE IF s.matched + 1 # 32 THEN PassState(t, s.matched + 1, s.calls)
    ELSE LET uuid == from_u128(from_hex(SubSeq(t, i - 31, i)))
             ret  == Call(f, uuid)
         IN  PassState(IF ret.some THEN write_dashless(t, i - 31, ret.val) ELSE t,
                       0, Append(s.calls, CallRec("dashless", i - 31, uuid, ret)))

\* text.rs 41, 92: `for i in 0..text.len()`, the bodies applied in order to
\* the bytes lo..hi; the range is halved and the state after the first half
\* is bound before the second half starts, to keep the evaluation shallow
RECURSIVE dashed_loop(_, _, _, _)
dashed_loop(s, lo, hi, f) ==
    IF lo > hi THEN s
    ELSE IF lo = hi THEN dashed_step(s, lo, f)
    ELSE CHOOSE r \in {dashed_loop(l, (lo + hi) \div 2 + 1, hi, f) :
                            l \in {dashed_loop(s, lo, (lo + hi) \div 2, f)}} : TRUE

RECURSIVE dashless_loop(_, _, _, _)
dashless_loop(s, lo, hi, f) ==
    IF lo > hi THEN s
    ELSE IF lo = hi THEN dashless_step(s, lo, f)
    ELSE CHOOSE r \in {dashless_loop(l, (lo + hi) \div 2 + 1, hi, f) :
                            l \in {dashless_loop(s, lo, (lo + hi) \div 2, f)}} : TRUE

\* text.rs 40-88: the dashed pass
dashed_pass(t, calls, f) == dashed_loop(PassState(t, 0, calls), 1, Len(t), f)

\* text.rs 91-112: the dashless pass
dashless_pass(t, calls, f) == dashless_loop(PassState(t, 0, calls), 1, Len(t), f)

\* text.rs 6-113: visit_text; mid is the buffer between the two passes
visit_text(t, f) ==
    LET p1 == dashed_pass(t, <<>>, f)
        p2 == dashless_pass(p1.text, p1.calls, f)
    IN  [text |-> p2.text, mid |-> p1.text, calls |-> p2.calls]

-----------------------------------------------------------------------------
(* Inputs of the text scanner: buffers made of at most MaxSegs segments    *)

LowerHexDigits == <<48, 49, 50, 51, 52, 53, 54, 55, 56, 57, 97, 98, 99, 100, 101, 102>>

Str(nibs) == [k \in 1..Len(nibs) |-> LowerHexDigits[nibs[k] + 1]]

\* 0123456789abcdef0123456789abcdef and fedcba9876543210fedcba9876543210
NibP == [k \in 1..32 |-> (k - 1) % 16]
NibQ == [k \in 1..32 |-> 15 - ((k - 1) % 16)]

\* xxxxxxxx-xxxx-xxxx-xxxx-xxxxxxxxxxxx of 32 hex bytes
Dashed(h) ==
    SubSeq(h, 1, 8) \o <<Dash>> \o SubSeq(h, 9, 12) \o <<Dash>> \o SubSeq(h, 13, 16)
        \o <<Dash>> \o SubSeq(h, 17, 20) \o <<Dash>> \o SubSeq(h, 21, 32)

Upper(s) == [k \in 1..Len(s) |-> IF s[k] >= 97 THEN s[k] - 32 ELSE s[k]]

SegX   == <<120>>                                  \* "x": neither hex nor '-'
SegDash == <<Dash>>
SegH1  == SubSeq(Str(NibP), 1, 1)
SegH20 == SubSeq(Str(NibP), 1, 20)
SegH32 == Str(NibP)
SegD   == Dashed(Str(NibQ))                        \* a dashed UUID
SegP24 == SubSeq(Dashed(Str(NibQ)), 1, 24)         \* 8-4-4-4- and nothing more
SegDU  == Upper(Dashed(Str(NibQ)))                 \* a dashed UUID in upper case
\* 8-4-4-4-4-8: the misplaced dash of test_visit_text
SegM   == SubSeq(Dashed(Str(NibQ)), 1, 28) \o <<Dash>> \o SubSeq(Str(NibQ), 25, 32)

Segments == <<SegX, SegDash, SegH1, SegH20, SegH32, SegD, SegP24, SegDU, SegM>>

SegChoices == UNION {[1..n -> 1..Len(Segments)] : n \in 0..MaxSegs}

Buffers == {Concat([k \in DOMAIN c |-> Segments[c[k]]]) : c \in SegChoices}

(* Callback tables.  UQ is the uuid of SegD, UP the uuid of SegH32.        *)
UP == from_u128(NibP)
UQ == from_u128(NibQ)
SwapNib(u) == [k \in 1..16 |-> (u[k] % 16) * 16 + (u[k] \div 16)]
UV == SwapNib(UP)
UW == [k \in 1..16 |-> (k * 17) % 256]
UZ == [k \in 1..16 |-> (k * 29) % 256]
UY == [k \in 1..16 |-> (k * 53) % 256]
Nibs(u) == [k \in 1..32 |-> IF k % 2 = 1 THEN u[(k + 1) \div 2] \div 16
                                         ELSE u[k \div 2] % 16]
\* the 32 hex digits that follow the 20th digit of a dashed UV followed by SegH20
UX == from_u128(SubSeq(Nibs(UV), 21, 32) \o SubSeq(NibP, 1, 20))
\* a dashed UV whose last group was overwritten with the head of UZ
UB == from_u128(SubSeq(Nibs(UV), 1, 20) \o SubSeq(Nibs(UZ), 1, 12))

TabNone  == {}
TabChain == {<<UQ, UP>>, <<UP, UW>>}
TabGen   == {<<UQ, UV>>, <<UP, UW>>, <<UX, UZ>>, <<UB, UY>>}
Tables   == {TabNone, TabChain, TabGen}

-----------------------------------------------------------------------------
(* The text scanner applied to a buffer, once and then once more           *)

TextInit ==
    /\ text \in Buffers
    /\ cb \in Tables
    /\ tphase = "start"
    /\ tinput = text
    /\ tmid = text
    /\ tonce = text
    /\ tcalls = <<>>
    /\ nbt = <<>> /\ cursor = 0 /\ stack = <<>> /\ nstate = "idle"
    /\ ninput = <<>> /\ ncalls = <<>>
    /\ content = <<>> /\ path = <<0, 0>> /\ files = {} /\ index = 0
    /\ aphase = "idle" /\ items = <<>> /\ writes = <<>>
    /\ SplitIdle /\ WorldIdle

\* visit_text(&mut text, cb)
Scan ==
    /\ tphase = "start"
    /\ \E r \in {visit_text(text, cb)} :
        /\ text' = r.text
        /\ tmid' = r.mid
        /\ tonce' = r.text
        /\ tcalls' = r.calls
    /\ tphase' = "scanned"
    /\ UNCHANGED <<cb, tinput>>
    /\ UNCHANGED nbtVars
    /\ UNCHANGED <<anvilVars, splitVars, worldVars>>

\* visit_text(&mut text, cb) on the buffer the first call left
Rescan ==
    /\ tphase = "scanned"
    /\ \E r \in {visit_text(text, cb)} :
        /\ text' = r.text
        /\ tmid' = r.mid
        /\ tcalls' = r.calls
    /\ tphase' = "rescanned"
    /\ UNCHANGED <<cb, tinput, tonce>>
    /\ UNCHANGED nbtVars
    /\ UNCHANGED <<anvilVars, splitVars, worldVars>>

TextNext == Scan \/ Rescan

SpecText == TextInit /\ [][TextNext]_vars

-----------------------------------------------------------------------------
(* What the text scanner is specified to do, stated without the scanner    *)

LowerHex == (48..57) \cup (97..102)
DashOffsets == {8, 13, 18, 23}

\* H{8}-H{4}-H{4}-H{4}-H{12} at bytes p..p+35 of B
IsDashedAt(B, p) ==
    /\ p >= 1 /\ p + 35 <= Len(B)
    /\ \A k \in 0..35 : IF k \in DashOffsets THEN B[p + k] = Dash
                                              ELSE B[p + k] \in LowerHex

\* H{32} at bytes p..p+31 of B
IsHexAt(B, p) ==
    /\ p >= 1 /\ p + 31 <= Len(B)
    /\ \A k \in 0..31 : B[p + k] \in LowerHex

DigitVal(c) == IF c <= 57 THEN c - 48 ELSE c - 87

\* the uuid written in the n bytes of B from p, dashes apart
HexValue(B, p, n) ==
    LET d == SelectSeq(SubSeq(B, p, p + n - 1), LAMBDA c : c # Dash)
    IN  [k \in 1..16 |-> DigitVal(d[2 * k - 1]) * 16 + DigitVal(d[2 * k])]

\* the n bytes of B from p, dashes apart
HexDigitsAt(B, p, n) == SelectSeq(SubSeq(B, p, p + n - 1), LAMBDA c : c # Dash)

\* the 32 lowercase hex digits of a uuid
HexOf(v) == [k \in 1..32 |-> LowerHexDigits[
                (IF k % 2 = 1 THEN v[(k + 1) \div 2] \div 16 ELSE v[k \div 2] % 16) + 1]]

\* the buffer the latest scan started from
TBefore == IF tphase = "rescanned" THEN tonce ELSE tinput

Scanned == tphase \in {"scanned", "rescanned"}

CallSet == Range(tcalls)
DashedCalls == {c \in CallSet : c.kind = "dashed"}
DashlessCalls == {c \in CallSet : c.kind = "dashless"}
SpanLen(c) == IF c.kind = "dashed" THEN 36 ELSE 32
InSpan(c, j) == c.at <= j /\ j < c.at + SpanLen(c)

\* C1: every occurrence of the dashed pattern that overlaps no earlier dashed
\* match is passed to the callback and, on Some(v), its hex positions hold the
\* lowercase hex of v after the dashed pass, whatever precedes the occurrence.
C1_DashedComplete ==
    Scanned =>
        \A p \in 1..Len(TBefore) :
            (/\ IsDashedAt(TBefore, p)
             /\ ~ \E c \in DashedCalls : c.at < p /\ p < c.at + 36)
            => \E c \in DashedCalls :
                /\ c.at = p
                /\ c.uuid = HexValue(TBefore, p, 36)
                /\ c.ret.some => HexDigitsAt(tmid, p, 36) = HexOf(c.ret.val)

\* the first bytes of the maximal runs of lowercase hex of B
RunStarts(B) ==
    {p \in 1..Len(B) : B[p] \in LowerHex /\ (p = 1 \/ B[p - 1] \notin LowerHex)}

\* the length of the run of lowercase hex of B that starts at p
RunLen(B, p) ==
    CHOOSE n \in 1..(Len(B) - p + 1) :
        /\ \A k \in 0..(n - 1) : B[p + k] \in LowerHex
        /\ (p + n > Len(B) \/ B[p + n] \notin LowerHex)

\* the blocks the dashless pass is to match: the first floor(n/32) of each run
DashlessBlocks(B) ==
    UNION {{s + 32 * k : k \in 0..((RunLen(B, s) \div 32) - 1)} : s \in RunStarts(B)}

\* C2: the dashless pass invokes f exactly on the first floor(n/32) blocks of
\* 32 bytes of every maximal run of n lowercase hex bytes, once each, with the
\* block's value, and rewrites a block exactly when f returns Some.
C2_DashlessBlocks ==
    Scanned =>
        /\ {c.at : c \in DashlessCalls} = DashlessBlocks(tmid)
        /\ Cardinality({k \in 1..Len(tcalls) : tcalls[k].kind = "dashless"})
               = Cardinality(DashlessBlocks(tmid))
        /\ \A c \in DashlessCalls :
            /\ c.uuid = HexValue(tmid, c.at, 32)
            /\ SubSeq(text, c.at, c.at + 31)
                   = (IF c.ret.some THEN HexOf(c.ret.val)
                                    ELSE SubSeq(tmid, c.at, c.at + 31))

\* a scanned buffer with a run of more than 64 hex bytes: two blocks and a rest
C2_Witness ==
    /\ tphase = "scanned"
    /\ \E s \in RunStarts(tmid) : RunLen(tmid, s) > 64
    /\ Cardinality(DashlessCalls) = 2
    /\ \E c \in DashlessCalls : c.ret.some

\* C3: visit_text keeps the length, changes no byte outside a span whose
\* callback returned Some, leaves the dashes of a dashed match in place, and
\* writes lowercase hex digits only.
C3_LayoutPreserved ==
    Scanned =>
        /\ Len(text) = Len(TBefore)
        /\ \A j \in 1..Len(TBefore) :
            text[j] # TBefore[j] =>
                /\ \E c \in CallSet : c.ret.some /\ InSpan(c, j)
                /\ text[j] \in LowerHex
        /\ \A c \in DashedCalls :
            \A k \in 0..35 : IF k \in DashOffsets
                             THEN text[c.at + k] = Dash /\ TBefore[c.at + k] = Dash
                             ELSE text[c.at + k] \in LowerHex
        /\ \A c \in DashlessCalls : \A k \in 0..31 : text[c.at + k] \in LowerHex

\* a dashed match inside other bytes was rewritten to a different value
C3_Witness ==
    /\ tphase = "scanned"
    /\ \E c \in DashedCalls :
        /\ c.ret.some
        /\ c.at > 1 /\ c.at + 36 <= Len(text)
        /\ \E k \in 0..35 : text[c.at + k] # tinput[c.at + k]

\* C4: f is invoked only with the value of a span that matches the dashed
\* pattern exactly or of 32 lowercase hex bytes; a buffer with no such span
\* sees no invocation and no change.
C4_ScannerSound ==
    Scanned =>
        /\ \A c \in DashedCalls :
            IsDashedAt(TBefore, c.at) /\ c.uuid = HexValue(TBefore, c.at, 36)
        /\ \A c \in DashlessCalls :
            IsHexAt(tmid, c.at) /\ c.uuid = HexValue(tmid, c.at, 32)
        /\ (\A p \in 1..Len(TBefore) : ~IsDashedAt(TBefore, p) /\ ~IsHexAt(TBefore, p))
            => tcalls = <<>> /\ text = TBefore

\* an upper case UUID next to a well-formed one: one invocation, for the latter
C4_Witness ==
    /\ tphase = "scanned"
    /\ tinput = SegDU \o SegM \o SegD
    /\ Len(tcalls) = 1
    /\ tcalls[1].at = Len(SegDU) + Len(SegM) + 1

\* C5 as stated: a second scan with the same table changes nothing.
C5_Idempotent == tphase = "rescanned" => text = tonce

\* f sends no uuid of its range to a different uuid
NoRemapOfRange(f) ==
    \A p \in f : LET r == Call(f, p[2]) IN r.some => r.val = p[2]

\* no span the dashless pass matched shares a byte with one the dashed pass matched
NoSpanOverlap ==
    \A c \in DashedCalls : \A d \in DashlessCalls :
        d.at + 32 <= c.at \/ c.at + 36 <= d.at

\* C5 amended: a second scan changes nothing when f sends no uuid of its range
\* to a different uuid and no dashless match overlaps a dashed match.
C5_IdempotentAmended ==
    (tphase = "rescanned" /\ NoRemapOfRange(cb) /\ NoSpanOverlap) => text = tonce

\* a rewritten buffer was scanned again under such a table
C5_Witness ==
    /\ tphase = "rescanned"
    /\ NoRemapOfRange(cb) /\ NoSpanOverlap
    /\ tonce # tinput
    /\ \E c \in DashedCalls : TRUE
    /\ \E c \in DashlessCalls : TRUE

-----------------------------------------------------------------------------
(* The NBT visitor, nbt.rs.  cursor and the recorded positions are 0-based *)
(* as in the source; byte k of the buffer is nbt[k + 1].                   *)

TAG_END == 0
TAG_BYTE == 1
TAG_SHORT == 2
TAG_INT == 3
TAG_LONG == 4
TAG_FLOAT == 5
TAG_DOUBLE == 6
TAG_BYTE_ARRAY == 7
TAG_STRING == 8
TAG_LIST == 9
TAG_COMPOUND == 10
TAG_INT_ARRAY == 11
TAG_LONG_ARRAY == 12

\* nbt.rs is_recursive
is_recursive(kind) == kind = TAG_LIST \/ kind = TAG_COMPOUND

\* nbt.rs worth_visiting
worth_visiting(kind) == is_recursive(kind) \/ kind = TAG_INT_ARRAY

\* the kinds tag_size knows (Some)
has_tag_size(kind) == kind \in TAG_END..TAG_DOUBLE

\* nbt.rs tag_size, for the kinds it knows
tag_size(kind) ==
    CASE kind = TAG_END -> 0
      [] kind = TAG_BYTE -> 1
      [] kind = TAG_SHORT -> 2
      [] kind = TAG_INT -> 4
      [] kind = TAG_LONG -> 8
      [] kind = TAG_FLOAT -> 4
      [] kind = TAG_DOUBLE -> 8

\* the kinds list_element_size knows (Some)
has_list_element_size(kind) == kind \in {TAG_BYTE_ARRAY, TAG_INT_ARRAY, TAG_LONG_ARRAY}

\* nbt.rs list_element_size, for the kinds it knows
list_element_size(kind) ==
    CASE kind = TAG_BYTE_ARRAY -> 1
      [] kind = TAG_INT_ARRAY -> 4
      [] kind = TAG_LONG_ARRAY -> 8

\* A u32 whose top byte is not zero stands for itself in the source; here every
\* such value is U32Top, the least of them: it exceeds the length of every
\* buffer of the model, and the visitor only adds it to cursor or counts up to it.
U32Top == 256 * 256 * 256

\* from_be_bytes of 1, 2 or 4 bytes
from_be_bytes(b) ==
    CASE Len(b) = 1 -> b[1]
      [] Len(b) = 2 -> b[1] * 256 + b[2]
      [] Len(b) = 4 -> IF b[1] # 0 THEN U32Top
                       ELSE (b[2] * 256 + b[3]) * 256 + b[4]

\* The visit in flight: st is "run" while visit_nbt executes, "ok" for Ok(()),
\* "eof" / "unknown" / "trailing" for the three Malformed NBT errors, and
\* "panic" when the thread panics (an index out of range, or cursor past len)
Fail(m, why) == [m EXCEPT !.st = why]

\* nbt.rs check_len!: len - cursor is a usize subtraction; with cursor > len it
\* panics in a debug build and wraps in a release build, where the check then
\* passes and the slice that follows panics: a panic in both
check_len(m, n) ==
    IF m.cursor > Len(m.nbt) THEN "panic"
    ELSE IF Len(m.nbt) - m.cursor < n THEN "eof"
    ELSE "run"

\* nbt.rs read!: the visit after the read and the value read
read(m, n) ==
    LET c == check_len(m, n) IN
    IF c # "run" THEN [m |-> Fail(m, c), val |-> 0]
    ELSE [m   |-> [m EXCEPT !.cursor = @ + n],
          val |-> from_be_bytes(SubSeq(m.nbt, m.cursor + 1, m.cursor + n))]

\* nbt.rs read_str!: the visit after the read, and where the string lies
read_str(m) ==
    LET r == read(m, 2) IN
    IF r.m.st # "run" THEN [m |-> r.m, at |-> 0, len |-> 0]
    ELSE LET c == check_len(r.m, r.val) IN
         IF c # "run" THEN [m |-> Fail(r.m, c), at |-> 0, len |-> 0]
         ELSE [m |-> [r.m EXCEPT !.cursor = @ + r.val], at |-> r.m.cursor, len |-> r.val]

\* the buffer with the bytes of v written from 0-based position at
copy_from_slice(b, at, v) ==
    [k \in 1..Len(b) |-> IF k > at /\ k <= at + Len(v) THEN v[k - at] ELSE b[k]]

\* nbt.rs visit_str!: the text scanner on the bytes of the string
visit_str(m, f) ==
    LET s == read_str(m) IN
    IF s.m.st # "run" THEN s.m
    ELSE LET r == visit_text(SubSeq(s.m.nbt, s.at + 1, s.at + s.len), f) IN
         [s.m EXCEPT
             !.nbt = copy_from_slice(@, s.at, r.text),
             !.calls = @ \o [k \in 1..Len(r.calls) |->
                 NbtCallRec(r.calls[k].kind, s.at + r.calls[k].at - 1,
                            s.at + r.calls[k].at - 1, r.calls[k].uuid, r.calls[k].ret)]]

\* the frames of the stack
CompoundFrame(map) == [type |-> "compound", map |-> map, kind |-> 0, index |-> 0, len |-> 0]
ListFrame(kind, len) == [type |-> "list", map |-> {}, kind |-> kind, index |-> 0, len |-> len]

\* nbt.rs visit_compound!
visit_compound(m) == [m EXCEPT !.stack = Append(@, CompoundFrame({}))]

\* nbt.rs visit_list!
visit_list(m) ==
    LET k == read(m, 1) IN
    IF k.m.st # "run" THEN k.m
    ELSE LET n == read(k.m, 4) IN
         IF n.m.st # "run" THEN n.m
         ELSE IF has_tag_size(k.val)
              THEN [n.m EXCEPT !.cursor = @ + tag_size(k.val) * n.val]
              ELSE [n.m EXCEPT !.stack = Append(@, ListFrame(k.val, n.val))]

visit_int_arr_default(m, f) ==
    LET r == read(m, 4) IN
    IF r.m.st # "run" THEN r.m
    ELSE IF r.val = 4
    THEN IF r.m.cursor + 16 > Len(r.m.nbt) THEN Fail(r.m, "panic")
         ELSE LET at   == r.m.cursor
                  uuid == SubSeq(r.m.nbt, at + 1, at + 16)
                  ret  == Call(f, uuid)
              IN  [r.m EXCEPT
                      !.nbt = copy_from_slice(@, at, IF ret.some THEN ret.val
                                                     ELSE [k \in 1..16 |-> 0]),
                      !.calls = Append(@, NbtCallRec("intarr", at, at, uuid, ret)),
                      !.cursor = @ + r.val * 4]
    ELSE [r.m EXCEPT !.cursor = @ + r.val * 4]

visit_int_arr_any(m, f) ==
    LET r == read(m, 4) IN
    IF r.m.st # "run" THEN r.m
    ELSE IF r.val >= 4
    THEN IF r.m.cursor + 16 > Len(r.m.nbt) THEN Fail(r.m, "panic")
         ELSE LET at   == r.m.cursor
                  uuid == SubSeq(r.m.nbt, at + 1, at + 16)
                  ret  == Call(f, uuid)
              IN  [r.m EXCEPT
                      !.nbt = IF ret.some THEN copy_from_slice(@, at, ret.val) ELSE @,
                      !.calls = Append(@, NbtCallRec("intarr", at, at, uuid, ret)),
                      !.cursor = @ + r.val * 4]
    ELSE [r.m EXCEPT !.cursor = @ + r.val * 4]

\* nbt.rs visit_int_arr!: the slice nbt[cursor..cursor + 16] panics when it
\* does not lie in the buffer
visit_int_arr(m, f) ==
    LET r == read(m, 4) IN
    IF r.m.st # "run" THEN r.m
    ELSE IF r.val = 4
    THEN IF r.m.cursor + 16 > Len(r.m.nbt) THEN Fail(r.m, "panic")
         ELSE LET at   == r.m.cursor
                  uuid == SubSeq(r.m.nbt, at + 1, at + 16)
                  ret  == Call(f, uuid)
              IN  [r.m EXCEPT
                      !.nbt = IF ret.some THEN copy_from_slice(@, at, ret.val) ELSE @,
                      !.calls = Append(@, NbtCallRec("intarr", at, at, uuid, ret)),
                      !.cursor = @ + r.val * 4]
    ELSE [r.m EXCEPT !.cursor = @ + r.val * 4]

\* nbt.rs visit_value!
visit_value(m, kind, f) ==
    IF kind = TAG_INT_ARRAY THEN visit_int_arr(m, f)
    ELSE IF has_tag_size(kind) THEN [m EXCEPT !.cursor = @ + tag_size(kind)]
    ELSE IF has_list_element_size(kind)
    THEN LET r == read(m, 4) IN
         IF r.m.st # "run" THEN r.m
         ELSE [r.m EXCEPT !.cursor = @ + r.val * list_element_size(kind)]
    ELSE IF kind = TAG_COMPOUND THEN visit_compound(m)
    ELSE IF kind = TAG_LIST THEN visit_list(m)
    ELSE IF kind = TAG_STRING THEN visit_str(m, f)
    ELSE Fail(m, "unknown")

SufMost == <<85, 85, 73, 68, 77, 111, 115, 116>>          \* b"UUIDMost"
SufLeast == <<85, 85, 73, 68, 76, 101, 97, 115, 116>>     \* b"UUIDLeast"

\* nbt.rs strip_postfix!: whether str ends with pre, and what precedes it
has_postfix(str, pre) ==
    Len(str) >= Len(pre) /\ SubSeq(str, Len(str) - Len(pre) + 1, Len(str)) = pre
strip_postfix(str, pre) == SubSeq(str, 1, Len(str) - Len(pre))

\* nbt.rs 207-211: map.get_mut(field) / map.insert for a UUIDMost name.  The
\* keys are slices of the buffer; the model keeps the bytes they held when
\* they were inserted.
put_most(map, field, pos) ==
    IF \E e \in map : e.key = field
    THEN {IF e.key = field THEN [e EXCEPT !.most = pos] ELSE e : e \in map}
    ELSE map \cup {[key |-> field, most |-> pos, least |-> 0]}

\* nbt.rs 213-217: the same for a UUIDLeast name
put_least(map, field, pos) ==
    IF \E e \in map : e.key = field
    THEN {IF e.key = field THEN [e EXCEPT !.least = pos] ELSE e : e \in map}
    ELSE map \cup {[key |-> field, most |-> 0, least |-> pos]}

\* a pair map that takes a half of any kind
note_half_any(map, kind, name, pos) ==
    IF has_postfix(name, SufMost) THEN put_most(map, strip_postfix(name, SufMost), pos)
    ELSE IF has_postfix(name, SufLeast) THEN put_least(map, strip_postfix(name, SufLeast), pos)
    ELSE map

\* nbt.rs 204-219: the pair map after an entry of this kind and name at cursor
note_half(map, kind, name, pos) ==
    IF kind # TAG_LONG THEN map
    ELSE IF has_postfix(name, SufMost) THEN put_most(map, strip_postfix(name, SufMost), pos)
    ELSE IF has_postfix(name, SufLeast) THEN put_least(map, strip_postfix(name, SufLeast), pos)
    ELSE map

RECURSIVE rewrite_pairs_swapped(_, _, _)
rewrite_pairs_swapped(m, order, f) ==
    IF order = <<>> \/ m.st # "run" THEN m
    ELSE LET e == Head(order) IN
         IF e.most + 8 > Len(m.nbt) \/ e.least + 8 > Len(m.nbt) THEN Fail(m, "panic")
         ELSE LET uuid == SubSeq(m.nbt, e.most + 1, e.most + 8)
                              \o SubSeq(m.nbt, e.least + 1, e.least + 8)
                  ret  == Call(f, uuid)
                  b1   == copy_from_slice(m.nbt, e.most, SubSeq(ret.val, 9, 16))
                  b2   == copy_from_slice(b1, e.least, SubSeq(ret.val, 1, 8))
              IN  rewrite_pairs_swapped(
                      [m EXCEPT !.nbt = IF ret.some THEN b2 ELSE @,
                                !.calls = Append(@, NbtCallRec("pair", e.most, e.least, uuid, ret))],
                      Tail(order), f)

\* nbt.rs 189-201: the loop over map.values(), in the order the sequence gives
RECURSIVE rewrite_pairs(_, _, _)
rewrite_pairs(m, order, f) ==
    IF order = <<>> \/ m.st # "run" THEN m
    ELSE LET e == Head(order) IN
         IF e.most + 8 > Len(m.nbt) \/ e.least + 8 > Len(m.nbt) THEN Fail(m, "panic")
         ELSE LET uuid == SubSeq(m.nbt, e.most + 1, e.most + 8)
                              \o SubSeq(m.nbt, e.least + 1, e.least + 8)
                  ret  == Call(f, uuid)
                  b1   == copy_from_slice(m.nbt, e.most, SubSeq(ret.val, 1, 8))
                  b2   == copy_from_slice(b1, e.least, SubSeq(ret.val, 9, 16))
              IN  rewrite_pairs(
                      [m EXCEPT !.nbt = IF ret.some THEN b2 ELSE @,
                                !.calls = Append(@, NbtCallRec("pair", e.most, e.least, uuid, ret))],
                      Tail(order), f)

\* the orders a HashMap may iterate its values in
Orders(map) == {o \in [1..Cardinality(map) -> map] : Range(o) = map}

\* nbt.rs 184 and 233-236: the loop ends when the stack is empty, and then
\* the cursor must be at the end of the buffer
loop_end(m) ==
    IF m.st # "run" \/ m.stack # <<>> THEN m
    ELSE IF m.cursor # Len(m.nbt) THEN Fail(m, "trailing")
    ELSE Fail(m, "ok")

Pop(stk) == SubSeq(stk, 1, Len(stk) - 1)

\* nbt.rs 164-183: the root tag, its name, and the root value
visit_root(m, f) ==
    LET k == read(m, 1) IN
    IF k.m.st # "run" THEN k.m
    ELSE LET s == read_str(k.m) IN
    IF s.m.st # "run" THEN s.m
    ELSE LET v ==
            IF k.val = TAG_COMPOUND THEN visit_compound(s.m)
            ELSE IF k.val = TAG_LIST
            THEN LET e == read(s.m, 1) IN
                 IF e.m.st # "run" THEN e.m
                 ELSE IF worth_visiting(e.val)
                 THEN LET n == read(e.m, 4) IN
                      IF n.m.st # "run" THEN n.m
                      ELSE [n.m EXCEPT !.stack = Append(@, ListFrame(e.val, n.val))]
                 ELSE e.m
            ELSE IF k.val = TAG_INT_ARRAY THEN visit_int_arr(s.m, f)
            ELSE s.m
         IN  IF v.st = "run" /\ v.stack = <<>> THEN Fail(v, "ok") ELSE v

\* nbt.rs 186-222: one iteration of the loop with a Compound frame on top;
\* order is the order map.values() yields
compound_step(m, order, f) ==
    LET top == m.stack[Len(m.stack)]
        k   == read(m, 1)
    IN  IF k.m.st # "run" THEN k.m
        ELSE IF k.val = TAG_END
        THEN LET w == rewrite_pairs(k.m, order, f) IN
             loop_end([w EXCEPT !.stack = IF w.st = "run" THEN Pop(@) ELSE @])
        ELSE LET s == read_str(k.m) IN
             IF s.m.st # "run" THEN s.m
             ELSE LET name == SubSeq(s.m.nbt, s.at + 1, s.at + s.len)
                      m2   == [s.m EXCEPT !.stack[Len(m.stack)].map =
                                   note_half(@, k.val, name, s.m.cursor)]
                  IN  visit_value(m2, k.val, f)

\* a loop that finds the end of a list in one iteration and pops the frame
\* in the next
list_step_late(m, f) ==
    LET top == m.stack[Len(m.stack)] IN
    IF top.index = top.len
    THEN IF top.map = {} THEN [m EXCEPT !.stack[Len(m.stack)].map = {0}]
         ELSE loop_end([m EXCEPT !.stack = Pop(@)])
    ELSE visit_value([m EXCEPT !.stack[Len(m.stack)].index = @ + 1], top.kind, f)

\* nbt.rs 223-230: one iteration of the loop with a List frame on top
list_step(m, f) ==
    LET top == m.stack[Len(m.stack)] IN
    IF top.index = top.len THEN loop_end([m EXCEPT !.stack = Pop(@)])
    ELSE visit_value([m EXCEPT !.stack[Len(m.stack)].index = @ + 1], top.kind, f)

\* nbt.rs 184-236: the loop run to its end, under every order that
\* map.values() can yield: the visits it can end as
RECURSIVE visit_loop(_, _)
visit_loop(m, f) ==
    IF m.st # "run" THEN {m}
    ELSE IF m.stack[Len(m.stack)].type = "compound"
    THEN UNION {visit_loop(n, f) :
                   n \in {compound_step(m, order, f) :
                              order \in Orders(m.stack[Len(m.stack)].map)}}
    ELSE UNION {visit_loop(n, f) : n \in {list_step(m, f)}}

\* nbt.rs 52-237: visit_nbt(&mut buf, f) as a whole: how it can return
\* ("ok", an error, or a panic), the buffer it leaves, and how many of its
\* callback invocations returned Some
visit_nbt(buf, f) ==
    {[st |-> m.st, nbt |-> m.nbt, some |-> stat(m.calls)] :
        m \in visit_loop(visit_root([nbt |-> buf, cursor |-> 0, stack |-> <<>>,
                                     calls |-> <<>>, st |-> "run"], f), f)}

\* the visit as a record, and back
Visit == [nbt |-> nbt, cursor |-> cursor, stack |-> stack, calls |-> ncalls, st |-> nstate]

Becomes(m) ==
    /\ nbt' = m.nbt
    /\ cursor' = m.cursor
    /\ stack' = m.stack
    /\ ncalls' = m.calls
    /\ nstate' = m.st

\* visit_nbt is entered: lines 53-183
Root ==
    /\ nstate = "start"
    /\ \E m \in {visit_root([Visit EXCEPT !.st = "run"], cb)} : Becomes(m)
    /\ UNCHANGED <<ninput, cb>>
    /\ UNCHANGED <<text, tphase, tinput, tmid, tonce, tcalls>>
    /\ UNCHANGED <<anvilVars, splitVars, worldVars>>

\* while let Some(top) = stack.last_mut(), top a Compound frame
CompoundStep ==
    /\ nstate = "run"
    /\ stack # <<>>
    /\ stack[Len(stack)].type = "compound"
    /\ \E order \in Orders(stack[Len(stack)].map) :
        \E m \in {compound_step(Visit, order, cb)} : Becomes(m)
    /\ UNCHANGED <<ninput, cb>>
    /\ UNCHANGED <<text, tphase, tinput, tmid, tonce, tcalls>>
    /\ UNCHANGED <<anvilVars, splitVars, worldVars>>

\* while let Some(top) = stack.last_mut(), top a List frame
ListStep ==
    /\ nstate = "run"
    /\ stack # <<>>
    /\ stack[Len(stack)].type = "list"
    /\ \E m \in {list_step(Visit, cb)} : Becomes(m)
    /\ UNCHANGED <<ninput, cb>>
    /\ UNCHANGED <<text, tphase, tinput, tmid, tonce, tcalls>>
    /\ UNCHANGED <<anvilVars, splitVars, worldVars>>

NbtNext == Root \/ CompoundStep \/ ListStep

-----------------------------------------------------------------------------
(* Inputs of the NBT visitor: root compounds made of at most MaxFrags      *)
(* fragments, documents with other roots, the negative vectors of          *)
(* test_visit_nbt, and documents cut short at every length.                *)

U16(n) == <<n \div 256, n % 256>>
U32(n) == <<0, 0, n \div 256, n % 256>>
Entry(tag, name, payload) == <<tag>> \o U16(Len(name)) \o name \o payload
Hi(u) == SubSeq(u, 1, 8)
Lo(u) == SubSeq(u, 9, 16)

\* b: 7b, j: [I; 3 ints], j: [I;], j: [I; 5 ints], b: [B; 1b, 2b], b: [L; 1 long],
\* l: [1b, 2b]
FPlain ==
    Entry(TAG_BYTE, <<98>>, <<7>>)
        \o Entry(TAG_INT_ARRAY, <<106>>, U32(3) \o SubSeq(UQ, 1, 12))
        \o Entry(TAG_INT_ARRAY, <<106>>, U32(0))
        \o Entry(TAG_INT_ARRAY, <<106>>, U32(5) \o UQ \o <<0, 0, 0, 9>>)
        \o Entry(TAG_BYTE_ARRAY, <<98>>, U32(2) \o <<1, 2>>)
        \o Entry(TAG_LONG_ARRAY, <<98>>, U32(1) \o Hi(UQ))
        \o Entry(TAG_LIST, <<108>>, <<TAG_BYTE>> \o U32(2) \o <<1, 2>>)
FMost == Entry(TAG_LONG, SufMost, Hi(UQ))                      \* UUIDMost
FLeast == Entry(TAG_LONG, SufLeast, Lo(UQ))                    \* UUIDLeast
FxMost == Entry(TAG_LONG, <<120>> \o SufMost, Hi(UP))          \* xUUIDMost
FxPairRev ==                                                   \* xUUIDLeast, xUUIDMost
    Entry(TAG_LONG, <<120>> \o SufLeast, Lo(UP)) \o Entry(TAG_LONG, <<120>> \o SufMost, Hi(UP))
FIntLeast == Entry(TAG_INT, SufLeast, <<0, 0, 0, 32>>)         \* UUIDLeast: 32 (an INT)
FIa4 == Entry(TAG_INT_ARRAY, <<105>>, U32(4) \o UQ)            \* i: [I; 4 ints]
FStr == Entry(TAG_STRING, <<115>>, U16(Len(SegD)) \o SegD)     \* s: "<dashed uuid>"
FKey == Entry(TAG_BYTE, SegD, <<7>>)                           \* "<dashed uuid>": 7b
FListIa ==                                                     \* l: [[I; 4 ints], [I; 3 ints]]
    Entry(TAG_LIST, <<108>>, <<TAG_INT_ARRAY>> \o U32(2)
        \o U32(4) \o UP \o U32(3) \o SubSeq(UP, 1, 12))
FListStr ==                                                    \* l: ["<32 hex>"]
    Entry(TAG_LIST, <<108>>, <<TAG_STRING>> \o U32(1) \o U16(Len(SegH32)) \o SegH32)
FCompOpen == Entry(TAG_COMPOUND, <<99>>, <<>>)                 \* c: {
FEnd == <<TAG_END>>                                            \* }
FBad == <<255, 0, 0>>                                          \* tag 255, named ""
FListEndBig == Entry(TAG_LIST, <<108>>, <<TAG_END, 255, 255, 255, 255>>)
FListByteBig == Entry(TAG_LIST, <<108>>, <<TAG_BYTE, 255, 255, 255, 255>>)
FListList ==                                                   \* l: [[5b], [[I; 4 ints]]]
    Entry(TAG_LIST, <<108>>, <<TAG_LIST>> \o U32(2)
        \o <<TAG_BYTE>> \o U32(1) \o <<5>>
        \o <<TAG_INT_ARRAY>> \o U32(1) \o U32(4) \o UQ)
FPair == FMost \o FLeast                                       \* UUIDMost, UUIDLeast
FListComp ==                                                   \* l: [{UUIDLeast, UUIDMost}]
    Entry(TAG_LIST, <<108>>, <<TAG_COMPOUND>> \o U32(1) \o FLeast \o FMost \o <<TAG_END>>)

Fragments ==
    <<FPlain, FMost, FLeast, FxMost, FxPairRev, FIntLeast, FIa4, FStr, FKey, FListIa,
      FListStr, FCompOpen, FEnd, FBad, FListEndBig, FListByteBig, FListList, FListComp,
      FPair>>

RootHeader(kind) == <<kind, 0, 0>>

CompoundDoc(c) ==
    RootHeader(TAG_COMPOUND) \o Concat([k \in DOMAIN c |-> Fragments[c[k]]]) \o <<TAG_END>>

FragChoices(max) == UNION {[1..n -> 1..Len(Fragments)] : n \in 0..max}

CompoundDocs(max) == {CompoundDoc(c) : c \in FragChoices(max)}

RootDocs ==
    { RootHeader(TAG_INT_ARRAY) \o U32(4) \o UQ,
      RootHeader(TAG_INT_ARRAY) \o U32(4) \o UQ \o <<0>>,
      RootHeader(TAG_INT_ARRAY) \o U32(3) \o SubSeq(UQ, 1, 12),
      RootHeader(TAG_STRING) \o U16(Len(SegD)) \o SegD,
      RootHeader(TAG_LONG) \o Hi(UQ),
      RootHeader(TAG_BYTE) \o <<7>>,
      RootHeader(TAG_BYTE) \o <<7, 7>>,
      RootHeader(255),
      RootHeader(TAG_END),
      RootHeader(TAG_LIST) \o <<TAG_INT_ARRAY>> \o U32(1) \o U32(4) \o UQ,
      RootHeader(TAG_LIST) \o <<TAG_STRING>> \o U32(1) \o U16(Len(SegD)) \o SegD,
      RootHeader(TAG_LIST) \o <<TAG_BYTE>> \o U32(2) \o <<1, 2>>,
      RootHeader(TAG_LIST) \o <<TAG_COMPOUND>> \o U32(1) \o FMost \o FLeast \o <<TAG_END>>,
      RootHeader(TAG_LIST) \o <<TAG_LIST>> \o U32(1) \o <<TAG_BYTE, 255, 255, 255, 255>>,
      RootHeader(TAG_LIST) \o <<TAG_LIST>> \o U32(1) \o <<TAG_END, 255, 255, 255, 255>> }

\* the negative vectors of test_visit_nbt (nbt.rs 339-351, 375)
TestDocs ==
    { <<TAG_COMPOUND, 0, 30, 0>>,
      <<TAG_COMPOUND, 0, 0, TAG_LIST, 0, 255, 255, 255, 255>>,
      <<TAG_COMPOUND, 0, 0, TAG_LIST, 1, 255, 255, 255, 255>>,
      <<TAG_COMPOUND, 0, 0, 255, 0>>,
      <<TAG_COMPOUND, 0, 0, TAG_END, 0, 0, 0, 0>>,
      <<>> }

Prefixes(d) == {SubSeq(d, 1, n) : n \in 0..(Len(d) - 1)}

Docs ==
    CompoundDocs(MaxFrags) \cup RootDocs \cup TestDocs
        \cup UNION {Prefixes(d) : d \in CompoundDocs(MaxTruncFrags) \cup RootDocs}

\* what a lone xUUIDMost of the first entry of a root compound is read as:
\* its long and the first 8 bytes of the document
UH == Hi(UP) \o SubSeq(RootHeader(TAG_COMPOUND) \o FxMost, 1, 8)
TabHalf == TabGen \cup {<<UH, UY>>}

NbtTables == {TabNone, TabGen, TabHalf}

NbtInit ==
    /\ nbt \in Docs
    /\ cb \in NbtTables
    /\ cursor = 0
    /\ stack = <<>>
    /\ nstate = "start"
    /\ ninput = nbt
    /\ ncalls = <<>>
    /\ text = <<>> /\ tphase = "idle" /\ tinput = <<>> /\ tmid = <<>>
    /\ tonce = <<>> /\ tcalls = <<>>
    /\ content = <<>> /\ path = <<0, 0>> /\ files = {} /\ index = 0
    /\ aphase = "idle" /\ items = <<>> /\ writes = <<>>
    /\ SplitIdle /\ WorldIdle

SpecNbt == NbtInit /\ [][NbtNext]_vars

\* visit_nbt applied to documents and visit_text to buffers, both with the
\* callback that returns None for every uuid
NoneInit == (TextInit \/ NbtInit) /\ cb = TabNone

NoneNext == Scan \/ Rescan \/ Root \/ CompoundStep \/ ListStep

SpecNone == NoneInit /\ [][NoneNext]_vars

-----------------------------------------------------------------------------
(* What an NBT document is, stated without the visitor: a recursive        *)
(* descent over the buffer that yields the fault it meets first, or the    *)
(* position after the value and the INT_ARRAY and STRING values met.       *)

BE16(B, p) == B[p + 1] * 256 + B[p + 2]
BE32(B, p) == IF B[p + 1] # 0 THEN U32Top
              ELSE (B[p + 2] * 256 + B[p + 3]) * 256 + B[p + 4]

Good(pos, sites) == [err |-> "none", pos |-> pos, sites |-> sites]
Bad(why) == [err |-> why, pos |-> 0, sites |-> {}]
Site(kind, at, n) ==
    [kind |-> kind, at |-> at, n |-> n, name |-> <<>>, comp |-> 0, tag |-> 0]
\* an entry of the compound whose entries start at comp: its tag, its name
\* and the position of its payload
EntrySite(at, name, comp, tag) ==
    [kind |-> "entry", at |-> at, n |-> 0, name |-> name, comp |-> comp, tag |-> tag]

ScalarSize == <<1, 2, 4, 8, 4, 8>>
ArrayElemSize(kind) == IF kind = TAG_BYTE_ARRAY THEN 1
                       ELSE IF kind = TAG_INT_ARRAY THEN 4 ELSE 8

RECURSIVE PValue(_, _, _), PElems(_, _, _, _), PEntries(_, _, _)

\* the value of this kind at 0-based position p of B
PValue(B, p, kind) ==
    IF kind \in 1..6
    THEN IF p + ScalarSize[kind] > Len(B) THEN Bad("eof")
         ELSE Good(p + ScalarSize[kind], {})
    ELSE IF kind \in {TAG_BYTE_ARRAY, TAG_INT_ARRAY, TAG_LONG_ARRAY}
    THEN IF p + 4 > Len(B) THEN Bad("eof")
         ELSE LET n == BE32(B, p) IN
              IF p + 4 + n * ArrayElemSize(kind) > Len(B) THEN Bad("eof")
              ELSE Good(p + 4 + n * ArrayElemSize(kind),
                        IF kind = TAG_INT_ARRAY THEN {Site("intarr", p + 4, n)} ELSE {})
    ELSE IF kind = TAG_STRING
    THEN IF p + 2 > Len(B) THEN Bad("eof")
         ELSE IF p + 2 + BE16(B, p) > Len(B) THEN Bad("eof")
         ELSE Good(p + 2 + BE16(B, p), {Site("string", p + 2, BE16(B, p))})
    ELSE IF kind = TAG_LIST
    THEN IF p + 5 > Len(B) THEN Bad("eof")
         ELSE PElems(B, p + 5, B[p + 1], BE32(B, p + 1))
    ELSE IF kind = TAG_COMPOUND THEN PEntries(B, p, p)
    ELSE IF kind = TAG_END THEN Bad("end")
    ELSE Bad("tag")

\* n list elements of kind ek from p
PElems(B, p, ek, n) ==
    IF n = 0 THEN Good(p, {})
    ELSE IF ek = TAG_END THEN Bad("count")
    ELSE IF ek \notin 1..12 THEN Bad("tag")
    ELSE IF n > Len(B) - p THEN Bad("eof")
    ELSE LET r == PValue(B, p, ek) IN
         IF r.err # "none" THEN r
         ELSE LET q == PElems(B, r.pos, ek, n - 1) IN
              IF q.err # "none" THEN q ELSE Good(q.pos, r.sites \cup q.sites)

\* the entries from p of the compound that starts at c, up to and with its END
PEntries(B, p, c) ==
    IF p + 1 > Len(B) THEN Bad("eof")
    ELSE IF B[p + 1] = TAG_END THEN Good(p + 1, {})
    ELSE IF p + 3 > Len(B) THEN Bad("eof")
    ELSE IF p + 3 + BE16(B, p + 1) > Len(B) THEN Bad("eof")
    ELSE LET at == p + 3 + BE16(B, p + 1)
             r  == PValue(B, at, B[p + 1])
         IN
         IF r.err # "none" THEN r
         ELSE LET q == PEntries(B, r.pos, c) IN
              IF q.err # "none" THEN q
              ELSE Good(q.pos,
                        r.sites \cup q.sites
                            \cup {EntrySite(at, SubSeq(B, p + 4, at), c, B[p + 1])})

\* the document: a tag, a name, the value, and nothing after it
PDoc(B) ==
    IF Len(B) < 3 THEN Bad("eof")
    ELSE IF 3 + BE16(B, 1) > Len(B) THEN Bad("eof")
    ELSE LET r == PValue(B, 3 + BE16(B, 1), B[1]) IN
         IF r.err = "none" /\ r.pos # Len(B) THEN Bad("trailing") ELSE r

Final == nstate \in {"ok", "eof", "unknown", "trailing", "panic"}
IsErr == nstate \in {"eof", "unknown", "trailing"}
NbtCallSet == Range(ncalls)
Slice(B, at, n) == SubSeq(B, at + 1, at + n)

\* C6: with the callback that returns None for every uuid, visit_nbt and
\* visit_text leave every byte of the buffer as it was, at every point of
\* the visit and however it ends.
C6_NoneNoMutation == cb = TabNone => (nbt = ninput /\ text = tinput)

\* visit_nbt failed after the callback had been asked about a uuid
C6_Witness ==
    /\ cb = TabNone
    /\ IsErr
    /\ ncalls # <<>>

\* C7: visit_nbt returns Ok exactly when the buffer is one well-formed named
\* value of any root kind followed by no further byte.
C7_OkIffWellFormed == Final => (nstate = "ok" <=> PDoc(ninput).err = "none")

\* C8: a document with a tag code outside 0..12 in a value position, the root
\* included, makes visit_nbt return a Malformed NBT error.
C8_UnknownTagIsError == (Final /\ PDoc(ninput).err = "tag") => IsErr

\* C9: a value whose extent runs past the end of the buffer makes visit_nbt
\* return a Malformed NBT error; the cursor never passes the length of the
\* buffer without an error being returned, and nothing is accessed outside
\* the buffer (an access the bounds check stops is a panic).
C9_OverrunIsError ==
    Final =>
        /\ nstate # "panic"
        /\ PDoc(ninput).err = "eof" => IsErr
        /\ cursor > Len(nbt) => IsErr

\* the INT_ARRAY values of the document
IntArrSites == {s \in PDoc(ninput).sites : s.kind = "intarr"}
IntArrCalls == {c \in NbtCallSet : c.kind = "intarr"}

\* C10: in a well-formed document f is invoked exactly on the INT_ARRAY
\* values of 4 ints, with their 16 bytes as the uuid, which are overwritten
\* with f's result on Some and kept on None; an INT_ARRAY of another count
\* sees no invocation and keeps its bytes.
C10_IntArray ==
    (Final /\ PDoc(ninput).err = "none") =>
        /\ {c.at : c \in IntArrCalls} = {s.at : s \in {t \in IntArrSites : t.n = 4}}
        /\ Cardinality({k \in 1..Len(ncalls) : ncalls[k].kind = "intarr"})
               = Cardinality({t \in IntArrSites : t.n = 4})
        /\ \A c \in IntArrCalls :
            /\ c.uuid = Slice(ninput, c.at, 16)
            /\ Slice(nbt, c.at, 16) = (IF c.ret.some THEN c.ret.val ELSE c.uuid)
        /\ \A s \in IntArrSites :
            s.n # 4 => Slice(nbt, s.at - 4, 4 + 4 * s.n) = Slice(ninput, s.at - 4, 4 + 4 * s.n)

\* a visit that met an INT_ARRAY of 4 ints inside a list, rewrote it, and
\* passed over INT_ARRAYs of 3, 0 and 5 ints
C10_Witness ==
    /\ nstate = "ok"
    /\ PDoc(ninput).err = "none"
    /\ \E c \in IntArrCalls : /\ c.ret.some
                               /\ c.at > 9
                               /\ Slice(ninput, c.at - 9, 9)
                                      = <<TAG_INT_ARRAY>> \o U32(2) \o U32(4)
    /\ \E s \in IntArrSites : s.n = 5
    /\ \E s \in IntArrSites : s.n = 0
    /\ \E s \in IntArrSites : s.n = 3
    /\ nbt # ninput

\* the LONG entries of the document and the prefixes of their names
EntrySites == {s \in PDoc(ninput).sites : s.kind = "entry"}
LongSites == {s \in EntrySites : s.tag = TAG_LONG}
EndsWith(name, suf) ==
    /\ Len(name) >= Len(suf)
    /\ SubSeq(name, Len(name) - Len(suf) + 1, Len(name)) = suf
IsMost(s) == EndsWith(s.name, SufMost)
IsLeast(s) == EndsWith(s.name, SufLeast)
PrefixOf(s) == IF IsMost(s) THEN SubSeq(s.name, 1, Len(s.name) - Len(SufMost))
               ELSE SubSeq(s.name, 1, Len(s.name) - Len(SufLeast))
\* the other entries of the same compound that carry the name of s
Namesakes(s) == {t \in LongSites : t.comp = s.comp /\ t.name = s.name /\ t # s}
\* m and l are the two halves of one prefix of one compound
IsPair(m, l) ==
    /\ IsMost(m) /\ IsLeast(l)
    /\ m.comp = l.comp
    /\ PrefixOf(m) = PrefixOf(l)
    /\ Namesakes(m) = {} /\ Namesakes(l) = {}
Pairs == {p \in LongSites \X LongSites : IsPair(p[1], p[2])}
PairCallIdx == {k \in 1..Len(ncalls) : ncalls[k].kind = "pair"}
PairCalls == {ncalls[k] : k \in PairCallIdx}

Paired(s) ==
    /\ IsMost(s) \/ IsLeast(s)
    /\ \E t \in LongSites : /\ t.comp = s.comp
                            /\ IsMost(t) \/ IsLeast(t)
                            /\ IsMost(t) # IsMost(s)
                            /\ PrefixOf(t) = PrefixOf(s)
\* s is a half whose compound has no other half for its prefix
Lone(s) == (IsMost(s) \/ IsLeast(s)) /\ ~Paired(s)
StringSites == {s \in PDoc(ninput).sites : s.kind = "string"}
Span(at, n) == (at + 1)..(at + n)
Changed == {i \in 1..Len(ninput) : nbt[i] # ninput[i]}

\* C12: the longs of a Most/Least pair change only when both halves of the
\* prefix are entries of the same compound; a half without its other half
\* keeps its 8 bytes, and no other byte changes on its account (a document
\* with no pair, no INT_ARRAY of 4 ints and no STRING stays as it was).
C12_PairAtomic ==
    (Final /\ PDoc(ninput).err = "none") =>
        /\ \A s \in LongSites : Lone(s) => Slice(nbt, s.at, 8) = Slice(ninput, s.at, 8)
        /\ ( /\ \A s \in LongSites : ~Paired(s)
             /\ \A s \in IntArrSites : s.n # 4
             /\ StringSites = {} ) => nbt = ninput

\* C13: for a prefix that has only its UUIDMost or only its UUIDLeast LONG in
\* a compound, the callback is not invoked.
C13_LoneHalfNoCall ==
    (Final /\ PDoc(ninput).err = "none") =>
        \A s \in LongSites : Lone(s) =>
            ~\E c \in PairCalls : c.at = s.at \/ c.at2 = s.at

\* the bytes a rewrite may touch: payloads of INT_ARRAYs of 4 ints, longs of
\* paired halves, and STRING values
Rewritable ==
    UNION ( {Span(s.at, 16) : s \in {t \in IntArrSites : t.n = 4}}
            \cup {Span(s.at, 8) : s \in {t \in LongSites : Paired(t)}}
            \cup {Span(s.at, s.n) : s \in StringSites} )

\* C14: after visit_nbt on a well-formed document, every byte outside the
\* payload of an INT_ARRAY of 4 ints, the longs of a Most/Least pair and the
\* STRING values (where the matched literals lie) is as it was in the input.
C14_UnrelatedPreserved ==
    (Final /\ PDoc(ninput).err = "none") => Changed \subseteq Rewritable

\* C15: every STRING value of the document, as a compound entry, a list
\* element or the root value, ends as the text scanner leaves it; the names
\* of entries are never rewritten.
C15_StringsScanned ==
    (Final /\ PDoc(ninput).err = "none") =>
        /\ \A s \in StringSites :
               Slice(nbt, s.at, s.n) = visit_text(Slice(ninput, s.at, s.n), cb).text
        /\ \A s \in EntrySites :
               Slice(nbt, s.at - Len(s.name), Len(s.name)) = s.name

-----------------------------------------------------------------------------
(* Region files (anvil.rs).  A Vec<u8> of the region code is kept as a     *)
(* sequence of runs: n equal bytes b ("fill"), or n bytes from offset off  *)
(* of the zlib stream of the payload b, which is z bytes long ("z").  A    *)
(* chunk payload is one run "u" that names the payload and the length of   *)
(* its zlib stream.                                                        *)

SECTOR_SIZE == 4096
MAX_CHUNK_NUM == 1024
COMPRESSION_KIND_GZIP == 1
COMPRESSION_KIND_ZLIB == 2
COMPRESSION_KIND_RAW == 3
COMPRESSION_KIND_LZ4 == 4
COMPRESSION_EXTERNAL == 128

Fill(b, n) == [k |-> "fill", b |-> b, n |-> n, z |-> 0, off |-> 0]
Payload(id, z) == <<[k |-> "u", b |-> id, n |-> z, z |-> z, off |-> 0]>>

RECURSIVE Size(_)
Size(c) == IF c = <<>> THEN 0 ELSE Head(c).n + Size(Tail(c))

\* n bytes of the run r from its byte number from
Part(r, from, n) == [r EXCEPT !.n = n, !.off = IF r.k = "fill" THEN 0 ELSE @ + from]

RECURSIVE Drop(_, _)
Drop(c, n) ==
    IF n <= 0 \/ c = <<>> THEN c
    ELSE IF Head(c).n <= n THEN Drop(Tail(c), n - Head(c).n)
    ELSE <<Part(Head(c), n, Head(c).n - n)>> \o Tail(c)

RECURSIVE Take(_, _)
Take(c, n) ==
    IF n <= 0 \/ c = <<>> THEN <<>>
    ELSE IF Head(c).n <= n THEN <<Head(c)>> \o Take(Tail(c), n - Head(c).n)
    ELSE <<Part(Head(c), 0, n)>>

\* two runs that are one run
Joins(r, t) ==
    /\ r.k = t.k /\ r.b = t.b /\ r.z = t.z
    /\ r.k = "fill" \/ t.off = r.off + r.n

\* the same bytes in the fewest runs
RECURSIVE Norm(_)
Norm(c) ==
    IF c = <<>> THEN <<>>
    ELSE IF Head(c).n = 0 THEN Norm(Tail(c))
    ELSE LET rest == Norm(Tail(c)) IN
         IF rest # <<>> /\ Joins(Head(c), Head(rest))
         THEN <<[Head(c) EXCEPT !.n = @ + Head(rest).n]>> \o Tail(rest)
         ELSE <<Head(c)>> \o rest

\* the runs of a short byte string
Bytes(v) == Norm([i \in 1..Len(v) |-> Fill(v[i], 1)])

\* &c[a..b]
Sub(c, a, b) == Norm(Take(Drop(c, a), b - a))

\* c[pos..pos + v.len()].copy_from_slice(v)
Put(c, pos, v) == Norm(Take(c, pos) \o v \o Drop(c, pos + Size(v)))

\* c[pos]; the bytes of a zlib stream are some bytes fixed by the payload
ByteAt(c, pos) ==
    LET r == Head(Drop(c, pos)) IN
    IF r.k = "fill" THEN r.b ELSE (r.b * 31 + r.off * 7 + 120) % 256

\* the 4 bytes at pos
WordAt(c, pos) == [i \in 1..4 |-> ByteAt(c, pos + i - 1)]

\* (v as u32).to_be_bytes() for 0 <= v < 2^31
U32Bytes(v) == <<v \div 16777216, (v \div 65536) % 256, (v \div 256) % 256, v % 256>>

\* i32::to_be_bytes
I32Bytes(t) ==
    IF t >= 0 THEN U32Bytes(t)
    ELSE LET u == (t + 1073741824) + 1073741824 IN
         <<u \div 16777216 + 128, (u \div 65536) % 256, (u \div 256) % 256, u % 256>>

\* a reading of the timestamp that drops its sign bit
I32Of_masked(w) == ((w[1] % 128) * 256 + w[2]) * 65536 + w[3] * 256 + w[4]

\* u32::from_be_bytes(w) as i32
I32Of(w) ==
    LET low == ((w[1] % 128) * 256 + w[2]) * 65536 + w[3] * 256 + w[4] IN
    IF w[1] < 128 THEN low ELSE (low - 1073741824) - 1073741824

\* flate2's ZlibEncoder on the payload: its zlib stream
ZStream(payload) ==
    <<[k |-> "z", b |-> payload[1].b, n |-> payload[1].z, z |-> payload[1].z, off |-> 0]>>

\* flate2's ZlibDecoder::read_to_end: the payload of the stream the bytes
\* begin with, or an error if they do not begin with a whole stream
ZlibDecode(bytes) ==
    IF bytes # <<>> /\ bytes[1].k = "z" /\ bytes[1].off = 0 /\ bytes[1].n = bytes[1].z
    THEN [ok |-> TRUE, data |-> Payload(bytes[1].b, bytes[1].z)]
    ELSE [ok |-> FALSE, data |-> <<>>]

\* the external chunk files: std::fs::write, std::fs::remove_file, std::fs::read
FileAt(fs, at) == {f \in fs : f.at = at}
fs_write(fs, at, data) == (fs \ FileAt(fs, at)) \cup {[at |-> at, data |-> data]}

\* a removal that leaves the file
fs_remove_kept(fs, at) == [ok |-> FileAt(fs, at) # {}, fs |-> fs]

fs_remove(fs, at) == [ok |-> FileAt(fs, at) # {}, fs |-> fs \ FileAt(fs, at)]

fs_read(fs, at) ==
    IF FileAt(fs, at) = {} THEN [ok |-> FALSE, data |-> <<>>]
    ELSE [ok |-> TRUE, data |-> (CHOOSE f \in FileAt(fs, at) : TRUE).data]

\* the place with the local coordinates taken the other way round
external_location_swapped(p, local) ==
    IF Len(p) # 2 THEN [ok |-> FALSE, at |-> <<0, 0>>]
    ELSE [ok |-> TRUE, at |-> <<p[1] * 32 + local[2], p[2] * 32 + local[1]>>]

\* anvil.rs 150-170: the place of the external file of a local chunk; a
\* file name that gives no region coordinates is kept as the empty tuple
external_location(p, local) ==
    IF Len(p) # 2 THEN [ok |-> FALSE, at |-> <<0, 0>>]
    ELSE [ok |-> TRUE, at |-> <<p[1] * 32 + local[1], p[2] * 32 + local[2]>>]

\* an image that is left unpadded
align_none(c) == Norm(c)

\* anvil.rs 201-206
align(c) ==
    LET len == Size(c)
        al  == ((len + SECTOR_SIZE - 1) \div SECTOR_SIZE) * SECTOR_SIZE
    IN  Norm(c \o <<Fill(0, al - len)>>)

\* anvil.rs 194-199
new == <<Fill(0, SECTOR_SIZE * 2)>>

\* anvil.rs 173-186: the image of the bytes read from the file, or an error
open(bytes) ==
    LET inner == align(bytes) IN
    [ok |-> Size(inner) >= 2 * SECTOR_SIZE, content |-> inner]

Chunk(external, location, timestamp, uncompressed) ==
    [external |-> external, location |-> location, timestamp |-> timestamp,
     uncompressed |-> uncompressed]

\* a sector count that rounds down
div_floor(a, b) == a \div b

div_ceil(a, b) == (a + b - 1) \div b

\* a location word that points one sector before the chunk
LocationWord_early(sector, sector_count) ==
    <<((sector - 1) \div 65536) % 256, ((sector - 1) \div 256) % 256,
      (sector - 1) % 256, sector_count>>

\* the location word ((start / SECTOR_SIZE) as u32) << 8 | sector_count
LocationWord(sector, sector_count) ==
    <<(sector \div 65536) % 256, (sector \div 256) % 256, sector % 256, sector_count>>

\* a write that keeps the location word of a slot that has one
write_finish_first(c, idx, start, len, sector_count) ==
    IF WordAt(c, idx * 4) # <<0, 0, 0, 0>>
    THEN align(Put(c, start - 4, Bytes(U32Bytes(len))))
    ELSE align(Put(Put(c, start - 4, Bytes(U32Bytes(len))),
                   idx * 4, Bytes(LocationWord(start \div SECTOR_SIZE, sector_count))))

\* anvil.rs 255-260: the chunk length, the location word, and the padding
write_finish(c, idx, start, len, sector_count) ==
    align(Put(Put(c, start - 4, Bytes(U32Bytes(len))),
              idx * 4, Bytes(LocationWord(start \div SECTOR_SIZE, sector_count))))

WriteRet(ok, c, fs) == [ok |-> ok, content |-> c, files |-> fs]

\* anvil.rs 215-261: Anvil::write; on an error the image stays as the code
\* left it at the `?`
write(c, p, fs, chunk) ==
    LET idx   == chunk.location[2] * 32 + chunk.location[1]
        c1    == Put(c, idx * 4 + SECTOR_SIZE, Bytes(I32Bytes(chunk.timestamp)))
        c2    == Norm(c1 \o <<Fill(0, 4)>>)
        start == Size(c2)
        c3    == Norm(c2 \o <<Fill(COMPRESSION_KIND_ZLIB, 1)>> \o ZStream(chunk.uncompressed))
        end   == Size(c3)
        len   == end - start
        sector_count == div_ceil(len + 4, SECTOR_SIZE)
        loc   == external_location(p, chunk.location)
    IN  IF sector_count > 255
        THEN IF ~loc.ok THEN WriteRet(FALSE, c3, fs)
             ELSE WriteRet(TRUE,
                      write_finish(Norm(Take(c3, start) \o
                                        <<Fill(COMPRESSION_EXTERNAL + COMPRESSION_KIND_ZLIB, 1)>>),
                                   idx, start, 1, 1),
                      fs_write(fs, loc.at, Sub(c3, start + 1, end)))
        ELSE IF chunk.external
        THEN IF ~loc.ok \/ ~fs_remove(fs, loc.at).ok THEN WriteRet(FALSE, c3, fs)
             ELSE WriteRet(TRUE, write_finish(c3, idx, start, len, sector_count),
                           fs_remove(fs, loc.at).fs)
        ELSE WriteRet(TRUE, write_finish(c3, idx, start, len, sector_count), fs)

\* the positions below lim of the bytes of c (which starts at position at)
\* that are not zero
RECURSIVE NonZeroAt(_, _, _)
NonZeroAt(c, at, lim) ==
    IF c = <<>> \/ at >= lim THEN {}
    ELSE LET r    == Head(c)
             last == IF at + r.n < lim THEN at + r.n - 1 ELSE lim - 1
             here == IF r.k = "fill"
                     THEN IF r.b = 0 THEN {} ELSE at..last
                     ELSE {q \in at..last : ByteAt(<<r>>, q - at) # 0}
         IN  here \cup NonZeroAt(Tail(c), at + r.n, lim)

\* the slots whose location word is not [0; 4]
Populated(c) == {q \div 4 : q \in NonZeroAt(c, 0, MAX_CHUNK_NUM * 4)}

\* anvil.rs 123-127: the first slot from idx whose location word is not zero
skip_empty(c, idx) ==
    LET later == {i \in Populated(c) : i >= idx} IN
    IF later = {} THEN MAX_CHUNK_NUM
    ELSE CHOOSE i \in later : \A j \in later : i <= j

Item(kind, slot, chunk) == [kind |-> kind, slot |-> slot, chunk |-> chunk]
NoChunk == Chunk(FALSE, <<0, 0>>, 0, <<>>)

\* the u32 of a word, as far as it is compared with lengths of images
WordValue(w) == IF w[1] # 0 THEN U32Top ELSE (w[2] * 256 + w[3]) * 256 + w[4]

\* anvil.rs 72-115: the chunk of the header at start, of length chunk_len
uncompress(c, p, fs, start, chunk_len, location, timestamp) ==
    LET tag  == ByteAt(c, start + 4)
        ext  == tag >= COMPRESSION_EXTERNAL
        kind == IF ext THEN tag - COMPRESSION_EXTERNAL ELSE tag
        loc  == external_location(p, location)
        file == fs_read(fs, loc.at)
        compressed == IF ext THEN file.data ELSE Sub(c, start + 5, start + chunk_len + 4)
        z    == ZlibDecode(compressed)
    IN  IF ext /\ (~loc.ok \/ ~file.ok) THEN Item("err", 0, NoChunk)
        ELSE IF kind = COMPRESSION_KIND_ZLIB
        THEN IF z.ok THEN Item("chunk", 0, Chunk(ext, location, timestamp, z.data))
             ELSE Item("err", 0, NoChunk)
        ELSE IF kind = COMPRESSION_KIND_RAW
        THEN Item("chunk", 0, Chunk(ext, location, timestamp, compressed))
        ELSE Item("err", 0, NoChunk)

\* anvil.rs 48-116: AnvilIter::peak at slot idx: a chunk, an error, or a
\* panic when a slice index is outside the image.  The test of line 64 is
\* made in sectors, which is the same on a 64-bit usize.
peak(c, p, fs, idx) ==
    LET location     == <<idx % 32, (idx \div 32) % 32>>
        w            == WordAt(c, idx * 4)
        offset       == (w[1] * 256 + w[2]) * 256 + w[3]
        sector_count == w[4]
        timestamp    == I32Of(WordAt(c, idx * 4 + SECTOR_SIZE))
        start        == offset * SECTOR_SIZE
        chunk_len    == WordValue(WordAt(c, start))
    IN  IF offset + sector_count > Size(c) \div SECTOR_SIZE THEN Item("err", idx, NoChunk)
        ELSE IF start + 4 > Size(c) THEN Item("panic", idx, NoChunk)
        ELSE IF chunk_len > Size(c) - start - 4 \/ chunk_len < 1 THEN Item("err", idx, NoChunk)
        ELSE [uncompress(c, p, fs, start, chunk_len, location, timestamp) EXCEPT !.slot = idx]

\* an iterator that does not move past the slot it has read
next_stay(c, p, fs, idx) ==
    LET i == skip_empty(c, idx) IN
    IF i = MAX_CHUNK_NUM THEN [index |-> i, item |-> Item("none", i, NoChunk)]
    ELSE [index |-> i, item |-> peak(c, p, fs, i)]

\* anvil.rs 122-145: Iterator::next
next(c, p, fs, idx) ==
    LET i == skip_empty(c, idx) IN
    IF i = MAX_CHUNK_NUM THEN [index |-> i, item |-> Item("none", i, NoChunk)]
    ELSE [index |-> i + 1, item |-> peak(c, p, fs, i)]

-----------------------------------------------------------------------------
(* The region machine: chunks are written to a region and the region is    *)
(* iterated.  An iterator borrows the region, so nothing is written while  *)
(* one is alive.                                                           *)

\* zlib streams of 20 bytes, of the most bytes that fit 255 sectors, and of
\* one byte more
Payloads ==
    { Payload(1, 20),
      Payload(3, 255 * SECTOR_SIZE - 5),
      Payload(4, 255 * SECTOR_SIZE - 4) }
Locations == {<<0, 0>>, <<31, 31>>}
\* the timestamp of the first, the second, ... write
Timestamps == <<-1, 1700000000, 0, -2147483647 - 1>>
\* the region r.-1.-1.mca
Paths == {<<-1, -1>>}
Chunks(t) == {Chunk(e, l, t, u) : e \in BOOLEAN, l \in Locations, u \in Payloads}

VisitorsIdle ==
    /\ nbt = <<>> /\ cursor = 0 /\ stack = <<>> /\ nstate = "idle"
    /\ ninput = <<>> /\ ncalls = <<>>
    /\ text = <<>> /\ tphase = "idle" /\ tinput = <<>> /\ tmid = <<>>
    /\ tonce = <<>> /\ tcalls = <<>>

AnvilIdleRest == VisitorsIdle /\ cb = TabNone /\ SplitIdle /\ WorldIdle

\* Anvil::new(path)
AnvilInit ==
    /\ content = new
    /\ path \in Paths
    /\ files = {}
    /\ index = 0
    /\ aphase = "ready"
    /\ items = <<>>
    /\ writes = <<>>
    /\ AnvilIdleRest

\* anvil.write(&chunk)
Write ==
    /\ aphase \in {"ready", "done"}
    /\ Len(writes) < MaxWrites
    /\ \E chunk \in Chunks(Timestamps[(Len(writes) % Len(Timestamps)) + 1]) :
        \E r \in {write(content, path, files, chunk)} :
            /\ content' = r.content
            /\ files' = r.files
            /\ writes' = Append(writes, [chunk |-> chunk, ok |-> r.ok])
    /\ items' = <<>>
    /\ aphase' = "ready"
    /\ UNCHANGED <<path, index>>
    /\ UNCHANGED <<textVars, nbtVars, splitVars, worldVars>>

\* anvil.iter()
Iter ==
    /\ aphase \in {"ready", "done"}
    /\ aphase' = "iter"
    /\ index' = 0
    /\ items' = <<>>
    /\ UNCHANGED <<content, path, files, writes>>
    /\ UNCHANGED <<textVars, nbtVars, splitVars, worldVars>>

\* iter.next(); the iterator is dropped after None ("done": the items are
\* those of a whole iteration), and a panic ends the program
IterNext ==
    /\ aphase = "iter"
    /\ \E r \in {next(content, path, files, index)} :
        /\ index' = r.index
        /\ items' = IF r.item.kind = "none" THEN items ELSE Append(items, r.item)
        /\ aphase' = IF r.item.kind = "none" THEN "done"
                     ELSE IF r.item.kind = "panic" THEN "panic" ELSE "iter"
    /\ UNCHANGED <<content, path, files, writes>>
    /\ UNCHANGED <<textVars, nbtVars, splitVars, worldVars>>

AnvilNext == Write \/ Iter \/ IterNext

SpecAnvil == AnvilInit /\ [][AnvilNext]_vars

-----------------------------------------------------------------------------
(* Claims about regions that are written and read back.                    *)

AllOk == \A i \in 1..Len(writes) : writes[i].ok
DistinctLocations ==
    \A i, j \in 1..Len(writes) :
        i # j => writes[i].chunk.location # writes[j].chunk.location

\* the sectors that the length field, the tag byte and the compressed
\* payload of a chunk need
NeedSectors(u) == (4 + 1 + Size(ZStream(u)) + SECTOR_SIZE - 1) \div SECTOR_SIZE
InLine(u) == NeedSectors(u) <= 255

\* the item of a whole iteration that is the chunk written by write i
ReadBack(i, j) ==
    /\ items[j].kind = "chunk"
    /\ items[j].chunk.location = writes[i].chunk.location
    /\ items[j].chunk.timestamp = writes[i].chunk.timestamp
    /\ items[j].chunk.uncompressed = writes[i].chunk.uncompressed

\* C16: after successful writes of chunks at pairwise distinct locations to
\* a new region, a whole iteration yields exactly those chunks, each with
\* the location, the signed timestamp and the payload that were written,
\* and with external = false when the chunk is stored in-line.
C16_RoundTrip ==
    (aphase = "done" /\ AllOk /\ DistinctLocations) =>
        /\ Len(items) = Len(writes)
        /\ \A j \in 1..Len(items) : items[j].kind = "chunk"
        /\ \A i \in 1..Len(writes) :
               \E j \in 1..Len(items) :
                   /\ ReadBack(i, j)
                   /\ InLine(writes[i].chunk.uncompressed) => ~items[j].chunk.external

\* two in-line chunks, one of them with a negative timestamp, read back
C16_Witness ==
    /\ aphase = "done" /\ AllOk /\ DistinctLocations
    /\ Len(writes) = 2 /\ Len(items) = 2
    /\ \A i \in 1..2 : InLine(writes[i].chunk.uncompressed)
    /\ \E j \in 1..2 : items[j].chunk.timestamp = -1 /\ ~items[j].chunk.external
    /\ \E j \in 1..2 : items[j].chunk.timestamp = 1700000000

\* the last write, its slot, and what the image holds for that slot
LastWrite == writes[Len(writes)]
SlotOf(location) == location[2] * 32 + location[1]
SlotOffset(slot) ==
    LET w == WordAt(content, slot * 4) IN (w[1] * 256 + w[2]) * 256 + w[3]
SlotCount(slot) == WordAt(content, slot * 4)[4]
SlotLength(slot) == WordValue(WordAt(content, SlotOffset(slot) * SECTOR_SIZE))
SlotTag(slot) == ByteAt(content, SlotOffset(slot) * SECTOR_SIZE + 4)
SiblingOf(location) == <<path[1] * 32 + location[1], path[2] * 32 + location[2]>>

\* the items of a whole iteration for a slot
ItemsOf(slot) == {j \in 1..Len(items) : items[j].slot = slot}

\* a whole iteration after a successful last write yields, for the slot of
\* that write, the one chunk written, with the given external flag
LastReadBack(ext) ==
    \E j \in 1..Len(items) :
        /\ ItemsOf(SlotOf(LastWrite.chunk.location)) = {j}
        /\ ReadBack(Len(writes), j)
        /\ items[j].chunk.external = ext

C19_RegionValid ==
    AllOk =>
        /\ Size(content) % 4096 = 0
        /\ Size(content) >= 8192
        /\ \A slot \in Populated(content) :
               /\ SlotOffset(slot) >= 2
               /\ SlotCount(slot) >= 1 /\ SlotCount(slot) <= 255
               /\ (SlotOffset(slot) + SlotCount(slot)) * 4096 <= Size(content)
               /\ SlotLength(slot) >= 1
               /\ SlotLength(slot) + 4 <= SlotCount(slot) * 4096

\* a region with a chunk of 255 sectors and a stub
C19_Witness ==
    /\ AllOk /\ Len(writes) = 2 /\ aphase = "ready"
    /\ Cardinality(Populated(content)) = 2
    /\ \E slot \in Populated(content) : SlotCount(slot) = 255
    /\ \E slot \in Populated(content) : SlotCount(slot) = 1 /\ SlotLength(slot) = 1
    /\ Size(content) = (2 + 255 + 1) * 4096

-----------------------------------------------------------------------------
(* Regions opened from a file: the location words and the first chunk      *)
(* sector are whatever the file holds.                                     *)

\* location words of a file: empty, one sector at sector 2, no sector at
\* sector 2, no sector at sector 3, one sector at sector 3, two sectors at
\* sector 0, and the words [1,0,0,0] and [10,9,0,0] of the tests
Words ==
    { <<0, 0, 0, 0>>, <<0, 0, 2, 1>>, <<0, 0, 2, 0>>, <<0, 0, 3, 0>>, <<0, 0, 3, 1>>,
      <<0, 0, 0, 2>>, <<1, 0, 0, 0>>, <<10, 9, 0, 0>> }

\* the slots of a file that hold a word
OpenSlots == <<0, 1, 1023>>

\* what a file holds after its two header sectors: nothing, a zlib chunk,
\* a sector of zeros, the header [0,0,0,6,5] of the tests, the stub of an
\* external chunk, and a raw chunk
Bodies ==
    { <<>>,
      Norm(Bytes(U32Bytes(21) \o <<COMPRESSION_KIND_ZLIB>>) \o ZStream(Payload(1, 20))),
      <<Fill(0, SECTOR_SIZE)>>,
      Bytes(<<0, 0, 0, 6, 5>>),
      Bytes(U32Bytes(1) \o <<COMPRESSION_EXTERNAL + COMPRESSION_KIND_ZLIB>>),
      Bytes(U32Bytes(3) \o <<COMPRESSION_KIND_RAW, 7, 7>>) }

\* the bytes of a file r.-1.-1.mca
DiskImage(w1, w2, w3, body) ==
    Norm(Put(Put(Put(new, OpenSlots[1] * 4, Bytes(w1)),
                 OpenSlots[2] * 4, Bytes(w2)),
             OpenSlots[3] * 4, Bytes(w3)) \o body)
DiskImages ==
    {<<>>, <<Fill(0, SECTOR_SIZE)>>} \cup
    {DiskImage(w1, w2, w3, body) : w1 \in Words, w2 \in Words, w3 \in Words, body \in Bodies}

\* the external chunk files next to the region file
DiskFiles == {{}, {[at |-> <<-32, -32>>, data |-> ZStream(Payload(1, 20))]}}

\* Anvil::open(path) returned Ok
OpenInit ==
    /\ \E b \in DiskImages : open(b).ok /\ content = open(b).content
    /\ path \in Paths
    /\ files \in DiskFiles
    /\ index = 0
    /\ aphase = "ready"
    /\ items = <<>>
    /\ writes = <<>>
    /\ AnvilIdleRest

OpenNext == Iter \/ IterNext

SpecOpen == OpenInit /\ [][OpenNext]_vars

\* the slot words that name no sector (count 0) at the end of the image
AtEnd(c) ==
    {slot \in Populated(c) :
        LET w == WordAt(c, slot * 4) IN
        w[4] = 0 /\ (w[1] * 256 + w[2]) * 256 + w[3] = Size(c) \div SECTOR_SIZE}

\* C20: for every image that Anvil::open accepts, the iterator yields
\* exactly one item, a chunk or an error, for every slot whose location
\* word is not zero, whatever the word, and moves on to the next such slot;
\* no slot aborts the iteration or is read outside the image.
C20_IterIsolation ==
    /\ aphase # "panic"
    /\ \A j \in 1..Len(items) : items[j].kind \in {"chunk", "err"}
    /\ \A j \in 1..Len(items) : Cardinality(ItemsOf(items[j].slot)) = 1
    /\ aphase = "done" => {items[j].slot : j \in 1..Len(items)} = Populated(content)

\* the images of C20 on which the iteration is one item a slot: those with
\* no word of count 0 at the end of the image; on the others the read of
\* the chunk length (anvil.rs 67) is outside the image
C20_ExceptAtEnd == AtEnd(content) = {} => C20_IterIsolation

-----------------------------------------------------------------------------
(* The order and the end of an iteration.                                  *)

\* what an iterator has yielded so far: slots in strictly increasing order
\* (so at most one item a slot, and at most 1024 items), each with a
\* non-zero location word and none of them skipped, chunks reported at
\* x = slot & 31, z = slot >> 5; and None only after slot 1023
IterOrder ==
    /\ \A j \in 1..Len(items) :
           /\ items[j].slot \in Populated(content)
           /\ j > 1 => items[j - 1].slot < items[j].slot
           /\ items[j].kind = "chunk" =>
                  items[j].chunk.location = <<items[j].slot % 32, items[j].slot \div 32>>
    /\ Len(items) <= MAX_CHUNK_NUM
    /\ aphase = "iter" =>
           {s \in Populated(content) : s < index} = {items[j].slot : j \in 1..Len(items)}
    /\ aphase = "done" =>
           /\ index = MAX_CHUNK_NUM
           /\ Populated(content) = {items[j].slot : j \in 1..Len(items)}

\* a call of next() on a live iterator either returns None, with every slot
\* passed, or yields one item and leaves the iterator at a later slot; so
\* an iteration ends after at most 1024 items
IterAdvance ==
    \/ aphase' = "done" /\ index' = MAX_CHUNK_NUM /\ items' = items
    \/ /\ aphase' = "iter" /\ index' > index /\ index' <= MAX_CHUNK_NUM
       /\ Len(items') = Len(items) + 1

-----------------------------------------------------------------------------
(* Writes to a slot that was written before.                               *)

\* the last write is to a location that an earlier write was made to
Rewritten ==
    /\ Len(writes) >= 2
    /\ \E i \in 1..(Len(writes) - 1) : writes[i].chunk.location = LastWrite.chunk.location

\* the slot of the last write holds its timestamp, its location word names
\* the sectors appended last, and a whole iteration yields one chunk for
\* the slot, with the payload of the last write
LatestWins ==
    LET slot == SlotOf(LastWrite.chunk.location) IN
    /\ WordAt(content, slot * 4 + SECTOR_SIZE) = I32Bytes(LastWrite.chunk.timestamp)
    /\ (SlotOffset(slot) + SlotCount(slot)) * SECTOR_SIZE = Size(content)
    /\ LastReadBack(~InLine(LastWrite.chunk.uncompressed))

\* a write leaves the image at least as long, and leaves the bytes after
\* the two header sectors as they were
AppendOnly ==
    writes' # writes =>
        /\ Size(content') >= Size(content)
        /\ Sub(content', 2 * SECTOR_SIZE, Size(content)) =
               Sub(content, 2 * SECTOR_SIZE, Size(content))

\* C30: after successful writes of which two or more are to the same
\* location, that slot's location word and timestamp are those of the
\* latest write, an iteration yields exactly one chunk for the slot, with
\* the latest payload, and the bytes of the earlier writes are still in
\* the image: a write never shrinks the image or changes chunk bytes
\* appended before.
C30_LastWriterWins ==
    /\ []((aphase = "done" /\ AllOk /\ Rewritten) => LatestWins)
    /\ [][AppendOnly]_vars

\* one slot written three times, in-line, to the sibling file and in-line
\* again: one item, and the sectors of all three writes in the image
C30_Witness ==
    /\ aphase = "done" /\ AllOk /\ Len(writes) = 3
    /\ \A i \in 1..3 : writes[i].chunk.location = <<31, 31>>
    /\ InLine(writes[1].chunk.uncompressed)
    /\ ~InLine(writes[2].chunk.uncompressed)
    /\ writes[3].chunk.uncompressed # writes[1].chunk.uncompressed
    /\ Len(items) = 1 /\ LatestWins
    /\ Size(content) =
           (2 + NeedSectors(writes[1].chunk.uncompressed) + 1
              + NeedSectors(writes[3].chunk.uncompressed)) * SECTOR_SIZE

-----------------------------------------------------------------------------
(* Writes that return an error.                                            *)

\* write i is the latest write to its location
Latest(i) ==
    \A k \in (i + 1)..Len(writes) : writes[k].chunk.location # writes[i].chunk.location

\* C28: whatever writes returned an error, the image length is a multiple
\* of 4096 and every chunk whose latest write returned Ok is read back by
\* an iteration, with its exact payload.
C28_ErrKeepsValid ==
    /\ Size(content) % SECTOR_SIZE = 0
    /\ aphase = "done" =>
           \A i \in 1..Len(writes) :
               (writes[i].ok /\ Latest(i)) => \E j \in 1..Len(items) : ReadBack(i, j)

\* the part of C28 that holds: a write that returns an error changes no
\* location word and no byte of the chunks appended before
C28_ErrKeepsWords ==
    [][(writes' # writes /\ ~writes'[Len(writes')].ok) =>
          /\ Sub(content', 0, SECTOR_SIZE) = Sub(content, 0, SECTOR_SIZE)
          /\ Sub(content', 2 * SECTOR_SIZE, Size(content)) =
                 Sub(content, 2 * SECTOR_SIZE, Size(content))]_vars

-----------------------------------------------------------------------------
(* split_tasks (src/src/task.rs): the task list is cut into count slices.  *)
(* A task is a number; the list holds each task once.                      *)

\* task.rs 82-83, 86, with the longer slices last
block_len_last(len, count, i) ==
    len \div count + IF i >= count - (len % count) THEN 1 ELSE 0

\* task.rs 82-83, 86: the length of slice i (from 0)
block_len(len, count, i) ==
    len \div count + IF i < len % count THEN 1 ELSE 0

AnvilIdle ==
    /\ content = <<>> /\ path = <<0, 0>> /\ files = {} /\ index = 0
    /\ aphase = "idle" /\ items = <<>> /\ writes = <<>>

\* split_tasks(&tasks, count) is entered, with count >= 1
SplitInit ==
    /\ \E n \in 0..MaxTasks : stasks = [k \in 1..n |-> k]
    /\ scount \in 1..MaxCount
    /\ sret = <<>>
    /\ sstart = 0
    /\ VisitorsIdle /\ cb = TabNone /\ AnvilIdle /\ WorldIdle

\* task.rs 85-89: one turn of the loop `for i in 0..count`
SplitStep ==
    /\ Len(sret) < scount
    /\ \E len \in {block_len(Len(stasks), scount, Len(sret))} :
        /\ sret' = Append(sret, SubSeq(stasks, sstart + 1, sstart + len))
        /\ sstart' = sstart + len
    /\ UNCHANGED <<stasks, scount>>
    /\ UNCHANGED <<textVars, nbtVars, anvilVars, worldVars>>

SplitNext == SplitStep

SpecSplit == SplitInit /\ [][SplitNext]_vars

\* C27: split_tasks(tasks, count) with count >= 1 returns exactly count
\* contiguous slices whose concatenation is tasks, with lengths that differ
\* by at most one, the len mod count longer slices first.
C27_SplitTasks ==
    Len(sret) = scount =>
        /\ Concat(sret) = stasks
        /\ \A i \in 1..scount :
               Len(sret[i]) = Len(stasks) \div scount
                              + IF i <= Len(stasks) % scount THEN 1 ELSE 0
        /\ \A i, j \in 1..scount : Len(sret[i]) - Len(sret[j]) <= 1
        /\ \A i, j \in 1..scount :
               \A a \in 1..Len(sret[i]) : \A b \in 1..Len(sret[j]) :
                   (i # j \/ a # b) => sret[i][a] # sret[j][b]

\* 10 tasks over 3 give slices of 4, 3 and 3 tasks
C27_Witness ==
    /\ Len(stasks) = 10 /\ scount = 3 /\ Len(sret) = 3
    /\ sret = <<<<1, 2, 3, 4>>, <<5, 6, 7>>, <<8, 9, 10>>>>

\* 10 tasks over 4 give slices of 3, 3, 2 and 2 tasks
C27_WitnessFour ==
    /\ Len(stasks) = 10 /\ scount = 4
    /\ sret = <<<<1, 2, 3>>, <<4, 5, 6>>, <<7, 8>>, <<9, 10>>>>

-----------------------------------------------------------------------------
(* The file driver (src/src/remap.rs).  A file name is its bytes.  A file  *)
(* is a record: its name, whether its bytes are a gzip stream (then bytes  *)
(* is what the stream decodes to), its bytes, and, for a region file, its  *)
(* image.                                                                  *)

Dot == 46
Slash == 47

ExtMca  == <<109, 99, 97>>
ExtDat  == <<100, 97, 116>>
ExtNbt  == <<110, 98, 116>>
ExtTxt  == <<116, 120, 116>>
ExtJson == <<106, 115, 111, 110>>

\* remap.rs 63-67: text_ext!(), the two of its extensions the model uses
text_ext == {ExtTxt, ExtJson}

File(name, gz, bytes, img) == [name |-> name, gz |-> gz, bytes |-> bytes, img |-> img]

\* the place of the last '.' of a name, or 0
LastDot(name) ==
    LET dots == {i \in 1..Len(name) : name[i] = Dot} IN
    IF dots = {} THEN 0 ELSE CHOOSE i \in dots : \A j \in dots : j <= i

\* the place of the last '/' of a path, or 0
LastSlash(name) ==
    LET at == {i \in 1..Len(name) : name[i] = Slash} IN
    IF at = {} THEN 0 ELSE CHOOSE i \in at : \A j \in at : j <= i

\* Path::file_name and Path::parent of a relative path
file_name(name) == SubSeq(name, LastSlash(name) + 1, Len(name))
parent(name) == SubSeq(name, 1, LastSlash(name) - 1)

\* Path::extension: what follows the last '.' of the file name, unless that
\* '.' begins the file name
extension(name) ==
    IF LastDot(file_name(name)) <= 1 THEN <<>>
    ELSE SubSeq(file_name(name), LastDot(file_name(name)) + 1, Len(file_name(name)))

\* str::split(sep)
RECURSIVE split(_, _)
split(s, sep) ==
    LET at == {i \in 1..Len(s) : s[i] = sep} IN
    IF at = {} THEN <<s>>
    ELSE LET i == CHOOSE i \in at : \A j \in at : i <= j IN
         <<SubSeq(s, 1, i - 1)>> \o split(SubSeq(s, i + 1, Len(s)), sep)

RECURSIVE dec_value(_)
dec_value(d) ==
    IF d = <<>> THEN 0 ELSE dec_value(SubSeq(d, 1, Len(d) - 1)) * 10 + (d[Len(d)] - 48)

\* str::parse::<i64>, for numbers of at most 8 digits: an optional sign and
\* one or more decimal digits
parse_i64(s) ==
    LET body == IF s # <<>> /\ s[1] \in {43, 45} THEN Tail(s) ELSE s IN
    IF body = <<>> \/ Len(body) > 8 \/ \E i \in 1..Len(body) : body[i] < 48 \/ body[i] > 57
    THEN [ok |-> FALSE, val |-> 0]
    ELSE [ok |-> TRUE, val |-> IF s[1] = 45 THEN 0 - dec_value(body) ELSE dec_value(body)]

\* anvil.rs 151-164: the region coordinates read from a file name, or the
\* empty tuple when a part is missing or is not a number
region_of(name) ==
    LET parts == split(file_name(name), Dot) IN
    IF Len(parts) < 3 THEN <<>>
    ELSE IF parse_i64(parts[2]).ok /\ parse_i64(parts[3]).ok
    THEN <<parse_i64(parts[2]).val, parse_i64(parts[3]).val>>
    ELSE <<>>

\* format!("{}", n) of an i64
RECURSIVE format_i64(_)
format_i64(n) ==
    IF n < 0 THEN <<45>> \o format_i64(0 - n)
    ELSE IF n < 10 THEN <<48 + n>>
    ELSE format_i64(n \div 10) \o <<48 + (n % 10)>>

\* anvil.rs 150-170: the path of the external file of a local chunk of the
\* region file at the path name: c.<X>.<Z>.mcc under Path::with_file_name
external_path(name, local) ==
    LET loc == external_location(region_of(name), local) IN
    IF ~loc.ok THEN [ok |-> FALSE, path |-> <<>>]
    ELSE [ok |-> TRUE,
          path |-> SubSeq(name, 1, LastSlash(name)) \o <<99, Dot>> \o format_i64(loc.at[1])
                       \o <<Dot>> \o format_i64(loc.at[2]) \o <<Dot, 109, 99, 99>>]

\* The NBT documents of chunks and files: i: [I; 4 ints] holding UQ, UV,
\* UP and UW, a document with no UUID, a document cut short after a UUID,
\* and two documents holding UQ and UV with more entries.  z is the length
\* of the zlib stream of a document: the streams of the last two need 256
\* and 255 sectors.
DocIa(u) == RootHeader(TAG_COMPOUND) \o Entry(TAG_INT_ARRAY, <<105>>, U32(4) \o u) \o <<TAG_END>>
DocPlain == CompoundDoc(<<1>>)
DocCut(u) ==
    RootHeader(TAG_COMPOUND) \o Entry(TAG_INT_ARRAY, <<105>>, U32(4) \o u) \o <<TAG_INT, 0>>
DocBig(u) ==
    RootHeader(TAG_COMPOUND) \o Entry(TAG_INT_ARRAY, <<105>>, U32(4) \o u)
        \o FPlain \o <<TAG_END>>

ChunkDocs ==
    << [doc |-> DocIa(UQ),  z |-> 30],
       [doc |-> DocIa(UV),  z |-> 31],
       [doc |-> DocIa(UP),  z |-> 32],
       [doc |-> DocIa(UW),  z |-> 33],
       [doc |-> DocPlain,   z |-> 40],
       [doc |-> DocCut(UQ), z |-> 20],
       [doc |-> DocBig(UQ), z |-> 255 * SECTOR_SIZE - 4],
       [doc |-> DocBig(UV), z |-> 255 * SECTOR_SIZE - 5] >>

\* the payload (Vec<u8>) of document i, and the documents as payloads
DocPayload(i) == Payload(10 + i, ChunkDocs[i].z)

\* the bytes of a payload
payload_bytes(u) ==
    IF u = <<>> THEN <<>>
    ELSE IF u[1].k = "u" THEN ChunkDocs[u[1].b - 10].doc
    ELSE [i \in 1..Size(u) |-> ByteAt(u, i - 1)]

\* a conversion that always yields the payload of the first document
bytes_payload_first(b) == DocPayload(1)

\* the payload of some bytes
bytes_payload(b) ==
    IF \E i \in 1..Len(ChunkDocs) : ChunkDocs[i].doc = b
    THEN DocPayload(CHOOSE i \in 1..Len(ChunkDocs) : ChunkDocs[i].doc = b)
    ELSE Bytes(b)

\* how a call returned, and what it left on the disk
Ret(ret, c, fs) == [ret |-> ret, content |-> c, files |-> fs, some |-> 0]

\* the returns after n more callback invocations that returned Some
Counted(rs, n) == {[r EXCEPT !.some = @ + n] : r \in rs}

\* a loop that ends at the first chunk that cannot be read
RECURSIVE mca_loop_stop(_, _, _, _, _, _)
mca_loop_stop(input, p, idx, out, fs, f) ==
    LET r == next(input, p, fs, idx) IN
    IF r.item.kind = "none" THEN {Ret("ok", out, fs)}
    ELSE IF r.item.kind = "panic" THEN {Ret("panic", out, fs)}
    ELSE IF r.item.kind = "err" THEN {Ret("ok", out, fs)}
    ELSE UNION
        { Counted(
            IF v.st = "panic" THEN {Ret("panic", out, fs)}
            ELSE IF v.st # "ok" THEN mca_loop_stop(input, p, r.index, out, fs, f)
            ELSE UNION
                { mca_loop_stop(input, p, r.index, w.content, w.files, f) :
                    w \in {write(out, p, fs,
                                 [r.item.chunk EXCEPT !.uncompressed = bytes_payload(v.nbt)])} },
            v.some)
          : v \in visit_nbt(payload_bytes(r.item.chunk.uncompressed), f) }

\* remap.rs 23-32: the loop over the chunks of the input region from slot
\* idx on; out is the output region so far.  A chunk that is not read, not
\* visited or not written is logged and the loop goes on; a panic ends the
\* thread.
RECURSIVE mca_loop(_, _, _, _, _, _)
mca_loop(input, p, idx, out, fs, f) ==
    LET r == next(input, p, fs, idx) IN
    IF r.item.kind = "none" THEN {Ret("ok", out, fs)}
    ELSE IF r.item.kind = "panic" THEN {Ret("panic", out, fs)}
    ELSE IF r.item.kind = "err" THEN mca_loop(input, p, r.index, out, fs, f)
    ELSE UNION
        { Counted(
            IF v.st = "panic" THEN {Ret("panic", out, fs)}
            ELSE IF v.st # "ok" THEN mca_loop(input, p, r.index, out, fs, f)
            ELSE UNION
                { mca_loop(input, p, r.index, w.content, w.files, f) :
                    w \in {write(out, p, fs,
                                 [r.item.chunk EXCEPT !.uncompressed = bytes_payload(v.nbt)])} },
            v.some)
          : v \in visit_nbt(payload_bytes(r.item.chunk.uncompressed), f) }

\* remap.rs 20-35 after Anvil::open returned the image input: the output
\* region is built, and saved unless the save fails
remap_mca(input, p, fs, f, save_fails) ==
    { IF r.ret = "ok" /\ save_fails THEN [Ret("err", input, r.files) EXCEPT !.some = r.some]
      ELSE IF r.ret = "ok" THEN r
      ELSE [Ret(r.ret, input, r.files) EXCEPT !.some = r.some]
      : r \in mca_loop(input, p, 0, new, fs, f) }

\* a remap_dat that writes the buffer back whatever the visitor returned
remap_dat_always(file, f) ==
    { [ret |-> IF v.st = "ok" THEN "ok" ELSE IF v.st = "panic" THEN "panic" ELSE "err",
       wrote |-> v.st # "panic", file |-> [file EXCEPT !.bytes = v.nbt], some |-> v.some]
      : v \in visit_nbt(file.bytes, f) }

\* remap.rs 37-54 after the file was read: the bytes written to the file,
\* or an error with nothing written.  A file that is not a gzip stream is
\* taken as raw NBT and written back raw.
remap_dat(file, f) ==
    { IF v.st = "ok"
      THEN [ret |-> "ok", wrote |-> TRUE, file |-> [file EXCEPT !.bytes = v.nbt],
            some |-> v.some]
      ELSE [ret |-> IF v.st = "panic" THEN "panic" ELSE "err", wrote |-> FALSE,
            file |-> file, some |-> v.some]
      : v \in visit_nbt(file.bytes, f) }

\* remap.rs 56-61 after the file was read
remap_text(file, f) == [file EXCEPT !.bytes = visit_text(@, f).text]

-----------------------------------------------------------------------------
(* The world directory and the workers (remap.rs 69-109, task.rs 13-38,    *)
(* main.rs 106-128).  A step of a worker is one call of the file system.   *)

is_file(w, name) == \E x \in w : x.name = name

fs_file(w, name) == CHOOSE x \in w : x.name = name

\* std::fs::write: the file is created or replaced
fs_store(w, file) == {x \in w : x.name # file.name} \cup {file}

\* the directories of the world: the program creates and removes none
Dirs(w0) == {<<>>} \cup {parent(x.name) : x \in w0}

\* std::fs::rename: the file takes the new name, and a file that had that
\* name is replaced
fs_rename(w, from, to) ==
    {x \in w : x.name # from /\ x.name # to} \cup {[fs_file(w, from) EXCEPT !.name = to]}

RECURSIVE block_start(_, _, _)
block_start(len, count, i) ==
    IF i = 0 THEN 0 ELSE block_start(len, count, i - 1) + block_len(len, count, i - 1)

\* task.rs 80-91
split_tasks(tasks, count) ==
    [i \in 1..count |->
        SubSeq(tasks, block_start(Len(tasks), count, i - 1) + 1,
               block_start(Len(tasks), count, i - 1) + block_len(Len(tasks), count, i - 1))]

\* the orders tasks.shuffle can leave the names in
Shuffles(names) ==
    {p \in [1..Cardinality(names) -> names] : {p[k] : k \in DOMAIN p} = names}

\* hit: another worker has written or renamed at the path of the task
\* since the call began; stat: task.rs 21, the counter of the thread
Worker(pc, pos, buf, before, hit, stat_) ==
    [pc |-> pc, pos |-> pos, buf |-> buf, before |-> before, hit |-> hit, stat |-> stat_]

Disk(w, fs) == [world |-> w, files |-> fs]

Task(i) == queue[i][workers[i].pos]

\* over: the call replaced a file that was at dst
FsCall(i, op, p, dst, over) ==
    [worker |-> i, pos |-> workers[i].pos, op |-> op, path |-> p, dst |-> dst,
     over |-> over]

\* the workers after worker i has written or renamed at the paths ps
Touch(ws, i, ps) ==
    [j \in DOMAIN ws |->
        IF j # i /\ workers[j].pc \in {"read", "content", "rename"} /\ Task(j) \in ps
        THEN [ws[j] EXCEPT !.hit = TRUE] ELSE ws[j]]

\* a run_tasks that leaves the loop at the first error
Return_stop(i, ret, fault, w, fs, ps, n) ==
    /\ results' = results \cup
           {[worker |-> i, pos |-> workers[i].pos, task |-> Task(i), ret |-> ret,
             fault |-> fault, before |-> workers[i].before, after |-> Disk(w, fs),
             hit |-> workers[i].hit, stat |-> workers[i].stat + n]}
    /\ workers' = Touch([workers EXCEPT ![i] =
                            Worker(IF ret = "panic" THEN "dead" ELSE "next",
                                   IF ret = "err" THEN Len(queue[i]) + 1
                                   ELSE workers[i].pos + 1, <<>>, <<>>, FALSE,
                                   workers[i].stat + n)], i, ps)

\* remap_file returns to run_tasks, which goes on to the next task; a
\* panic ends the thread.  n callback invocations of the step returned Some.
Return(i, ret, fault, w, fs, ps, n) ==
    /\ results' = results \cup
           {[worker |-> i, pos |-> workers[i].pos, task |-> Task(i), ret |-> ret,
             fault |-> fault, before |-> workers[i].before, after |-> Disk(w, fs),
             hit |-> workers[i].hit, stat |-> workers[i].stat + n]}
    /\ workers' = Touch([workers EXCEPT ![i] =
                            Worker(IF ret = "panic" THEN "dead" ELSE "next",
                                   workers[i].pos + 1, <<>>, <<>>, FALSE,
                                   workers[i].stat + n)], i, ps)

Goto(i, pc, buf, ps, n) ==
    workers' = Touch([workers EXCEPT ![i].pc = pc, ![i].buf = buf, ![i].stat = @ + n], i, ps)

\* task.rs 23, remap.rs 74-75: the next task of the shard begins
Begin(i) ==
    /\ workers[i].pc = "next"
    /\ workers[i].pos <= Len(queue[i])
    /\ IF ~is_file(world, Task(i))
       THEN /\ results' = results \cup
                   {[worker |-> i, pos |-> workers[i].pos, task |-> Task(i),
                     ret |-> "ok", fault |-> "none", before |-> Disk(world, files),
                     after |-> Disk(world, files), hit |-> FALSE,
                     stat |-> workers[i].stat]}
            /\ workers' = [workers EXCEPT ![i].pos = @ + 1]
       ELSE /\ workers' = [workers EXCEPT ![i] =
                   Worker(IF extension(Task(i)) \in {ExtMca, ExtDat, ExtNbt} \cup text_ext
                          THEN "read" ELSE "rename",
                          @.pos, <<>>, Disk(world, files), FALSE, @.stat)]
            /\ UNCHANGED results
    /\ UNCHANGED <<world, files, fslog>>

\* remap.rs 21, 38, 57: the file is read
Read(i) ==
    /\ workers[i].pc = "read"
    /\ fslog' = fslog \cup {FsCall(i, "read", Task(i), <<>>, FALSE)}
    /\ UNCHANGED <<world, files>>
    /\ IF ~is_file(world, Task(i))
       THEN Return(i, "err", "none", world, files, {}, 0)
       ELSE IF extension(Task(i)) = ExtMca
       THEN \/ Return(i, "err", "open", world, files, {}, 0)
            \/ \E o \in {open(fs_file(world, Task(i)).img)} :
                   IF o.ok THEN Goto(i, "content", o.content, {}, 0) /\ UNCHANGED results
                   ELSE Return(i, "err", "none", world, files, {}, 0)
       ELSE Goto(i, "content", fs_file(world, Task(i)), {}, 0) /\ UNCHANGED results

\* remap.rs 22-33, 40-52, 58-59: the content is rewritten and written
Content(i) ==
    /\ workers[i].pc = "content"
    /\ IF extension(Task(i)) = ExtMca
       THEN \E save_fails \in BOOLEAN :
            \E r \in remap_mca(workers[i].buf, region_of(Task(i)), files, cb, save_fails) :
                /\ files' = r.files
                /\ IF r.ret = "ok"
                   THEN /\ world' = fs_store(world, File(Task(i), FALSE, <<>>, r.content))
                        /\ fslog' = fslog \cup {FsCall(i, "write", Task(i), <<>>, FALSE)}
                        /\ Goto(i, "rename", <<>>, {Task(i)}, r.some)
                        /\ UNCHANGED results
                   ELSE /\ UNCHANGED <<world, fslog>>
                        /\ Return(i, r.ret, IF save_fails /\ r.ret = "err" THEN "save" ELSE "none",
                                  world, r.files, {}, r.some)
       ELSE \E r \in IF extension(Task(i)) \in text_ext
                      THEN {[ret |-> "ok", wrote |-> TRUE,
                             file |-> remap_text(workers[i].buf, cb),
                             some |-> stat(visit_text(workers[i].buf.bytes, cb).calls)]}
                      ELSE remap_dat(workers[i].buf, cb) :
                /\ UNCHANGED files
                /\ IF r.wrote
                   THEN /\ world' = fs_store(world, [r.file EXCEPT !.name = Task(i)])
                        /\ fslog' = fslog \cup {FsCall(i, "write", Task(i), <<>>, FALSE)}
                   ELSE UNCHANGED <<world, fslog>>
                /\ IF r.ret = "ok"
                   THEN Goto(i, "rename", <<>>, {Task(i)}, r.some) /\ UNCHANGED results
                   ELSE Return(i, r.ret, "none", world', files,
                               IF r.wrote THEN {Task(i)} ELSE {}, r.some)

\* remap.rs 84-104: the name is rewritten and the file renamed
Rename(i) ==
    /\ workers[i].pc = "rename"
    /\ UNCHANGED files
    /\ \E to \in {visit_text(Task(i), cb).text}, n \in {stat(visit_text(Task(i), cb).calls)} :
        IF to = Task(i)
        THEN /\ UNCHANGED <<world, fslog>>
             /\ Return(i, "ok", "none", world, files, {}, n)
        ELSE /\ fslog' = fslog \cup {FsCall(i, "rename", Task(i), to,
                                           /\ is_file(world, Task(i))
                                           /\ is_file(world, to)
                                           /\ parent(to) \in Dirs(world0))}
             /\ IF is_file(world, Task(i)) /\ parent(to) \in Dirs(world0)
                THEN /\ world' = fs_rename(world, Task(i), to)
                     /\ Return(i, "ok", "none", world', files, {Task(i), to}, n)
                ELSE /\ UNCHANGED world
                     /\ Return(i, "err", "none", world, files, {}, n)

WorldRest ==
    UNCHANGED <<nbt, cursor, stack, nstate, ninput, ncalls,
                text, cb, tphase, tinput, tmid, tonce, tcalls,
                content, path, index, aphase, items, writes,
                stasks, scount, sret, sstart, world0, queue>>

BeginStep == \E i \in DOMAIN workers : Begin(i) /\ WorldRest
ReadStep == \E i \in DOMAIN workers : Read(i) /\ WorldRest
ContentStep == \E i \in DOMAIN workers : Content(i) /\ WorldRest
RenameStep == \E i \in DOMAIN workers : Rename(i) /\ WorldRest

WorldNext == BeginStep \/ ReadStep \/ ContentStep \/ RenameStep

-----------------------------------------------------------------------------
(* Worlds of at most MaxFiles files, shuffled and shared out among at most *)
(* MaxWorkers workers                                                      *)

\* <uuid>.<ext>, as the playerdata files are named
NameOf(u, ext) == Dashed(Str(Nibs(u))) \o <<Dot>> \o ext

\* r.-1.-1.mca
RegionName == <<114, Dot, 45, 49, Dot, 45, 49, Dot>> \o ExtMca

TabSwap == {<<UQ, UP>>, <<UP, UQ>>}

WorldTables == {TabNone, TabChain, TabSwap}

FilePool ==
    { File(NameOf(UQ, ExtDat), TRUE, DocIa(UQ), <<>>),
      File(NameOf(UP, ExtDat), TRUE, DocCut(UP), <<>>),
      File(NameOf(UQ, ExtJson), FALSE, SegD, <<>>),
      File(NameOf(UP, ExtJson), FALSE, Dashed(SegH32), <<>>),
      File(NameOf(UQ, ExtNbt), FALSE, DocCut(UQ), <<>>) }

Idle == Worker("next", 1, <<>>, <<>>, FALSE, 0)

\* main.rs 106-108: the tasks are shuffled and split among the workers
Start(fs, n) ==
    /\ world = fs
    /\ world0 = fs
    /\ \E p \in Shuffles({x.name : x \in fs}) : queue = split_tasks(p, n)
    /\ workers = [i \in 1..n |-> Idle]
    /\ fslog = {}
    /\ results = {}
    /\ VisitorsIdle /\ SplitIdle
    /\ content = <<>> /\ path = <<0, 0>> /\ index = 0
    /\ aphase = "idle" /\ items = <<>> /\ writes = <<>>

WorldInit ==
    /\ \E fs \in SUBSET FilePool, n \in 1..MaxWorkers :
        /\ Cardinality(fs) \in 1..MaxFiles
        /\ Start(fs, n)
    /\ cb \in WorldTables
    /\ files = {}

SpecWorld == WorldInit /\ [][WorldNext]_vars

\* every worker is through its shard
AllDone == \A i \in DOMAIN workers : workers[i].pc = "next" /\ workers[i].pos > Len(queue[i])

-----------------------------------------------------------------------------
(* A world of two or three files, one of which can end a thread          *)

\* p.nbt: a list of 2^32 - 1 bytes that the file does not hold
PanicFile == File(<<112, Dot>> \o ExtNbt, FALSE, CompoundDoc(<<16>>), <<>>)

RunWorlds ==
    { { File(NameOf(UQ, ExtJson), FALSE, SegD, <<>>),
        File(NameOf(UP, ExtDat), TRUE, DocCut(UP), <<>>) },
      { File(NameOf(UQ, ExtJson), FALSE, SegD, <<>>),
        File(NameOf(UP, ExtDat), TRUE, DocCut(UP), <<>>),
        File(NameOf(UQ, ExtDat), TRUE, DocIa(UQ), <<>>) },
      { File(NameOf(UQ, ExtJson), FALSE, SegD, <<>>),
        File(NameOf(UP, ExtDat), TRUE, DocCut(UP), <<>>),
        PanicFile } }

RunInit ==
    /\ \E fs \in RunWorlds, n \in 1..MaxWorkers : Start(fs, n)
    /\ cb \in {TabNone, TabGen}
    /\ files = {}

SpecRun == RunInit /\ [][WorldNext]_vars

-----------------------------------------------------------------------------
(* One region file of at most MaxChunks chunks, or one other file, and    *)
(* one worker                                                              *)

McaLocations == {<<0, 0>>, <<31, 31>>, <<5, 7>>}

\* the documents of the chunks: ChunkDocs[1], [5], [6] and [7]
McaDocs == {1, 5, 6, 7}

McaTables == {TabNone, TabGen}

ChunkLists ==
    UNION {{cs \in [1..n -> McaDocs \X McaLocations] :
               \A j, k \in 1..n : cs[j][2] = cs[k][2] => j = k} : n \in 0..MaxChunks}

\* the region file r.-1.-1.mca and its external chunk files after the
\* chunks of cs were written to a new region and saved
RECURSIVE write_all(_, _, _)
write_all(cs, k, r) ==
    IF k > Len(cs) THEN r
    ELSE write_all(cs, k + 1,
             write(r.content, <<-1, -1>>, r.files,
                   Chunk(FALSE, cs[k][2], Timestamps[k], DocPayload(cs[k][1]))))

\* what can have happened to the files since: nothing; a word that names
\* sectors past the end of the file, or the end of the file itself, in the
\* slot of chunk (1, 0); external chunk files lost, or replaced by short
\* streams
Damages == {"none", "past", "end", "lost", "short"}

Damaged(r, d) ==
    [content |->
        IF d = "past" THEN Put(r.content, 4, Bytes(<<10, 9, 0, 1>>))
        ELSE IF d = "end"
        THEN Put(r.content, 4, Bytes(LocationWord(Size(r.content) \div SECTOR_SIZE, 0)))
        ELSE r.content,
     files |->
        IF d = "lost" THEN {}
        ELSE IF d = "short" THEN {[at |-> x.at, data |-> ZStream(DocPayload(1))] : x \in r.files}
        ELSE r.files]

Regions ==
    {Damaged(write_all(cs, 1, [ok |-> TRUE, content |-> new, files |-> {}]), d) :
        cs \in ChunkLists, d \in Damages}

NbtFiles ==
    { File(NameOf(UQ, ExtDat), TRUE, DocIa(UQ), <<>>),
      File(NameOf(UQ, ExtNbt), FALSE, DocIa(UQ), <<>>),
      File(NameOf(UP, ExtDat), TRUE, DocPlain, <<>>),
      File(NameOf(UP, ExtNbt), TRUE, DocIa(UP), <<>>) }

\* <uuid>.json, <uuid>/a.json and <uuid>/<uuid>.json
TextFiles ==
    { File(NameOf(UQ, ExtJson), FALSE, SegD, <<>>),
      File(Dashed(Str(NibQ)) \o <<Slash, 97, Dot>> \o ExtJson, FALSE, SegD, <<>>),
      File(Dashed(Str(NibQ)) \o <<Slash>> \o NameOf(UP, ExtJson), FALSE, SegX, <<>>) }

\* r.<rx>.<rz>.mca
RName(rx, rz) ==
    <<114, Dot>> \o format_i64(rx) \o <<Dot>> \o format_i64(rz) \o <<Dot>> \o ExtMca

\* region file names: r.-1.-1.mca, r.0.2.mca, d/r.2.-1.mca; x.-1.-1.mca,
\* r.0.2.old.mca, r.+1.2.mca; r.a.b.mca, r.1.mca, region.mca
RegionNames ==
    { RName(-1, -1), RName(0, 2), <<100, Slash>> \o RName(2, -1),
      <<120>> \o Tail(RName(-1, -1)),
      <<114, Dot, 48, Dot, 50, Dot, 111, 108, 100, Dot>> \o ExtMca,
      <<114, Dot, 43, 49, Dot, 50, Dot>> \o ExtMca,
      <<114, Dot, 97, Dot, 98, Dot>> \o ExtMca,
      <<114, Dot, 49, Dot>> \o ExtMca,
      <<114, 101, 103, 105, 111, 110, Dot>> \o ExtMca }

\* a region file of that name with one chunk, in an external file, written
\* and saved under the region coordinates p
NamedRegions ==
    {[name |-> n,
      r |-> write(new, IF region_of(n) = <<>> THEN <<-1, -1>> ELSE region_of(n), {},
                  Chunk(FALSE, l, 7, DocPayload(7)))] :
        n \in RegionNames, l \in McaLocations}

McaInit ==
    /\ \/ \E r \in Regions :
            /\ Start({File(RegionName, FALSE, <<>>, r.content)}, 1)
            /\ files = r.files
       \/ \E x \in NamedRegions :
            /\ Start({File(x.name, FALSE, <<>>, x.r.content)}, 1)
            /\ files = x.r.files
       \/ \E f \in NbtFiles \cup TextFiles : Start({f}, 1) /\ files = {}
    /\ cb \in McaTables

SpecMca == McaInit /\ [][WorldNext]_vars

-----------------------------------------------------------------------------
(* Claims about the driver                                                 *)

\* the file system calls made during the call that returned k
CallsOf(k) == {e \in fslog : e.worker = k.worker /\ e.pos = k.pos}

\* r is the return of a .dat or .nbt file whose visit returned an error
DatErrOf(r) ==
    /\ r.ret = "err"
    /\ extension(r.task) \in {ExtDat, ExtNbt}
    /\ is_file(r.before.world, r.task)

\* this step returns the error of the visit of a .dat or .nbt file
DatErrReturns == \E k \in results' \ results : DatErrOf(k)

\* C24: when the visit of a .dat or .nbt file returns an error, remap_file
\* returns the error and has neither written nor renamed the file: the
\* call made no file system call but the read, the step that returns
\* leaves the directory as it is, and unless another worker wrote or renamed
\* at the path the file has the bytes and the name it had before the call.
C24_DatErrUntouched ==
    /\ [](\A k \in results : DatErrOf(k) =>
            /\ \A e \in CallsOf(k) : e.op = "read"
            /\ ~k.hit =>
                /\ is_file(k.after.world, k.task)
                /\ fs_file(k.after.world, k.task)
                       = fs_file(k.before.world, k.task))
    /\ [][DatErrReturns => world' = world]_vars

\* a raw and a gzipped file have returned the error of a visit that had
\* already rewritten a UUID in the buffer
C24_Witness ==
    /\ \E k \in results : DatErrOf(k) /\ ~fs_file(world0, k.task).gz
    /\ \E k \in results :
        /\ DatErrOf(k) /\ fs_file(world0, k.task).gz
        /\ \E v \in visit_nbt(fs_file(world0, k.task).bytes, cb) :
               v.st # "ok" /\ v.nbt # fs_file(world0, k.task).bytes

\* the files one call of remap_file makes of the file f when nothing else
\* is in the directory
Once(f) ==
    IF extension(f.name) \in text_ext
    THEN {[remap_text(f, cb) EXCEPT !.name = visit_text(f.name, cb).text]}
    ELSE IF extension(f.name) \in {ExtDat, ExtNbt}
    THEN {IF r.ret = "ok" THEN [r.file EXCEPT !.name = visit_text(f.name, cb).text] ELSE f :
             r \in remap_dat(f, cb)}
    ELSE {IF r.ret = "ok" THEN [f EXCEPT !.img = r.content] ELSE f :
             r \in remap_mca(open(f.img).content, region_of(f.name), {}, cb, FALSE)}

NoFault == \A k \in results : k.fault = "none"

\* C25: when remap_file has run once on every file of the task list, there
\* are as many files as before, each file is what one call makes of
\* exactly one of the files there were, and no rename has replaced a file.
C25_OneInOneOut ==
    (AllDone /\ NoFault) =>
        /\ Cardinality(world) = Cardinality(world0)
        /\ \A x \in world : Cardinality({f \in world0 : x \in Once(f)}) = 1
        /\ \A e \in fslog : ~e.over

\* the tasks of the shards of the other workers
Foreign(i) == UNION {{queue[j][k] : k \in DOMAIN queue[j]} : j \in DOMAIN queue \ {i}}

\* C26: no worker makes a file system call on a path of a file of another
\* worker's shard.
C26_NoForeignPath ==
    \A e \in fslog : e.path \notin Foreign(e.worker) /\ e.dst \notin Foreign(e.worker)

-----------------------------------------------------------------------------
(* Claims about region files in the driver                                 *)

\* the items the iterator yields for an image from slot idx on, up to the
\* end or a panic
RECURSIVE iter_items(_, _, _, _)
iter_items(c, p, fs, idx) ==
    LET r == next(c, p, fs, idx) IN
    IF r.item.kind = "none" THEN <<>>
    ELSE IF r.item.kind = "panic" THEN <<r.item>>
    ELSE <<r.item>> \o iter_items(c, p, fs, r.index)

\* k is the return of a call on a region file that was opened
McaCall(k) ==
    /\ extension(k.task) = ExtMca
    /\ k.fault # "open"
    /\ is_file(k.before.world, k.task)
    /\ open(fs_file(k.before.world, k.task).img).ok

\* the items of the region file before and after the call of k
ItemsBefore(k) ==
    iter_items(open(fs_file(k.before.world, k.task).img).content,
               region_of(k.task), k.before.files, 0)

ItemsAfter(k) ==
    iter_items(open(fs_file(k.after.world, k.task).img).content,
               region_of(k.task), k.after.files, 0)

Triple(location, timestamp, payload) ==
    [location |-> location, timestamp |-> timestamp, payload |-> payload]

Triples(its) ==
    [j \in DOMAIN its |->
        IF its[j].kind = "chunk"
        THEN Triple(its[j].chunk.location, its[j].chunk.timestamp, its[j].chunk.uncompressed)
        ELSE its[j].kind]

\* the item is a chunk whose visit with the table f returns Ok
Visitable(it, f) ==
    /\ it.kind = "chunk"
    /\ \A v \in visit_nbt(payload_bytes(it.chunk.uncompressed), f) : v.st = "ok"

\* the sequences (location, timestamp, rewritten payload) of the chunks
\* of its that are read and visited
RECURSIVE Kept(_, _)
Kept(its, f) ==
    IF its = <<>> THEN {<<>>}
    ELSE IF ~Visitable(Head(its), f) THEN Kept(Tail(its), f)
    ELSE {<<Triple(Head(its).chunk.location, Head(its).chunk.timestamp,
                   bytes_payload(v.nbt))>> \o rest :
             v \in visit_nbt(payload_bytes(Head(its).chunk.uncompressed), f),
             rest \in Kept(Tail(its), f)}

\* the slots of the items that are not read or not visited
Dropped(its, f) == {its[j].slot : j \in {j \in DOMAIN its : ~Visitable(its[j], f)}}

\* the iterator or the visitor panics on the region file
Panics(its, f) ==
    \E j \in DOMAIN its :
        \/ its[j].kind = "panic"
        \/ /\ its[j].kind = "chunk"
           /\ \E v \in visit_nbt(payload_bytes(its[j].chunk.uncompressed), f) : v.st = "panic"

DamagedSlots(k) ==
    /\ k.ret = "ok"
    /\ Triples(ItemsAfter(k)) \in Kept(ItemsBefore(k), cb)
    /\ Dropped(ItemsBefore(k), cb) \cap
           Populated(fs_file(k.after.world, k.task).img) = {}

C29_FailureUntouched ==
    \A k \in results :
        k.fault \in {"open", "save"} => k.after = k.before

\* k is the return of a call on a file whose content is readable
\* and valid NBT
Valid(k) ==
    /\ is_file(k.before.world, k.task)
    /\ IF extension(k.task) = ExtMca
       THEN /\ McaCall(k)
            /\ \A j \in DOMAIN ItemsBefore(k) : Visitable(ItemsBefore(k)[j], TabNone)
       ELSE \A v \in visit_nbt(fs_file(k.before.world, k.task).bytes,
                               TabNone) : v.st = "ok"

\* C22: with a callback that always returns None, the call on a valid
\* .mca, .dat or .nbt file returns Ok and the file decodes to the same
\* data as before: iterating the region file yields the same locations,
\* timestamps and payloads, and a .dat or .nbt file has the same NBT bytes
\* in the same encoding.
C22_IdentityRoundTrip ==
    \A k \in results :
        (cb = TabNone /\ k.fault = "none" /\ Valid(k)) =>
            /\ k.ret = "ok"
            /\ is_file(k.after.world, k.task)
            /\ IF extension(k.task) = ExtMca
               THEN Triples(ItemsAfter(k)) = Triples(ItemsBefore(k))
               ELSE fs_file(k.after.world, k.task)
                       = fs_file(k.before.world, k.task)

\* a region file of two chunks, one of them in an external file, has been
\* through the driver with the callback that returns None
C22_Witness ==
    \E k \in results :
        /\ cb = TabNone /\ k.fault = "none" /\ Valid(k)
        /\ extension(k.task) = ExtMca
        /\ Len(ItemsBefore(k)) = 2
        /\ \E j \in 1..2 : ItemsBefore(k)[j].chunk.external

\* a gzipped and a raw NBT file have been through the driver with the
\* callback that returns None
C22_WitnessNbt ==
    \E k \in results :
        /\ cb = TabNone /\ Valid(k) /\ k.ret = "ok"
        /\ extension(k.task) \in {ExtDat, ExtNbt}

-----------------------------------------------------------------------------
(* Further claims about the NBT visitor                                    *)

\* C31: a document whose first fault is a LIST of element tag END with a
\* declared count other than zero makes visit_nbt return an error.
C31_EndListIsError == (Final /\ PDoc(ninput).err = "count") => IsErr

\* the entries named ...UUIDMost or ...UUIDLeast whose tag is not LONG
OtherHalves == {s \in EntrySites : s.tag # TAG_LONG /\ (IsMost(s) \/ IsLeast(s))}

\* C32: an entry whose name ends in UUIDMost or UUIDLeast and whose tag is
\* not LONG is at no time a half in a pair map, is a half of no callback
\* invocation, and its value (of a scalar kind) keeps its bytes.
C32_OnlyLongHalves ==
    \A s \in OtherHalves :
        /\ \A k \in DOMAIN stack : \A e \in stack[k].map : e.most # s.at /\ e.least # s.at
        /\ \A c \in PairCalls : c.at # s.at /\ c.at2 # s.at
        /\ s.tag \in 1..6 =>
               Slice(nbt, s.at, ScalarSize[s.tag]) = Slice(ninput, s.at, ScalarSize[s.tag])

\* the visit of a compound with an INT UUIDLeast and a LONG UUIDMost has
\* returned Ok, with the callback invoked
C32_Witness ==
    /\ nstate = "ok"
    /\ \E s \in OtherHalves : \E t \in LongSites : IsMost(t) /\ t.comp = s.comp
    /\ ncalls # <<>>

\* the bytes of the buffer after the cursor
Left(v) == IF v.cursor >= Len(v.nbt) THEN 0 ELSE Len(v.nbt) - v.cursor

\* the iterations a visit has left at most: four for each byte after the
\* cursor, one for each frame, and two when a List frame is on top
ItersLeft(v) ==
    IF v.st # "run" THEN 0
    ELSE 4 * Left(v) + Len(v.stack)
         + (IF v.stack # <<>> /\ v.stack[Len(v.stack)].type = "compound" THEN 0 ELSE 2)

\* the iteration consumes a byte, pops a frame or ends the visit
Consumes == cursor' > cursor \/ Len(stack') < Len(stack) \/ nstate' # "run"

\* the iteration pushes the Compound frame of an element of a list
PushesElement ==
    /\ stack[Len(stack)].type = "list" /\ stack[Len(stack)].kind = TAG_COMPOUND
    /\ cursor' = cursor
    /\ Len(stack') = Len(stack) + 1
    /\ stack'[Len(stack')].type = "compound"

-----------------------------------------------------------------------------
(* A further claim about the text scanner                                  *)

\* the bytes the invocation c overwrote: the hex digits of its span, when
\* the callback returned Some
Overwritten(c) ==
    IF ~c.ret.some THEN {}
    ELSE {j \in 1..Len(tinput) : InSpan(c, j) /\ tinput[j] # Dash}

\* C39: after a visit_text call no byte was overwritten twice: no byte that
\* the dashed pass overwrote is in a span that the dashless pass matched
\* and overwrote.
C39_NoByteTwice ==
    tphase = "scanned" =>
        \A c \in DashedCalls : \A d \in DashlessCalls :
            Overwritten(c) \cap Overwritten(d) = {}

-----------------------------------------------------------------------------
(* Further claims about the NBT visitor, continued                         *)

\* the arguments of the callback invocations, each with its number
ArgBag(calls) ==
    [u \in {calls[j].uuid : j \in DOMAIN calls} |->
        Cardinality({j \in DOMAIN calls : calls[j].uuid = u})]

\* how the visit of the input can end under the orders map.values() can
\* yield: the buffer, the arguments of the callback and the result
Outcomes ==
    {[nbt |-> m.nbt, args |-> ArgBag(m.calls), st |-> m.st] :
        m \in visit_loop(visit_root([nbt |-> ninput, cursor |-> 0, stack |-> <<>>,
                                     calls |-> <<>>, st |-> "run"], cb), cb)}

\* C38: the buffer, the multiset of callback arguments and the result of a
\* visit that has ended are those of the visit under every order in which
\* the pending pairs of a closing compound can be iterated.
C38_OrderIndependent ==
    Final => Outcomes = {[nbt |-> nbt, args |-> ArgBag(ncalls), st |-> nstate]}

-----------------------------------------------------------------------------
(* Further claims about the driver                                         *)

\* C33: a .nbt file is visited as the bytes it holds and never decoded as
\* gzip: a .nbt file that holds a gzip stream, whose bytes are no NBT
\* document the visitor rewrites, holds the same data after the call.
C33_NbtIsRaw ==
    \A k \in results :
        (/\ extension(k.task) = ExtNbt
         /\ is_file(k.before.world, k.task)
         /\ fs_file(k.before.world, k.task).gz)
            => \A x \in k.after.world : x.bytes = fs_file(k.before.world, k.task).bytes

\* the path with the UUIDs of its file name rewritten
LeafRenamed(name) ==
    SubSeq(name, 1, LastSlash(name)) \o visit_text(file_name(name), cb).text

\* C34: after the call on a text file the file is in the directory it was
\* in, under its file name with the UUIDs rewritten; the call returns Ok
\* and renames, if at all, within the directory.
C34_LeafOnly ==
    \A k \in results :
        (extension(k.task) \in text_ext /\ is_file(k.before.world, k.task) /\ ~k.hit) =>
            /\ k.ret = "ok"
            /\ is_file(k.after.world, LeafRenamed(k.task))
            /\ \A e \in CallsOf(k) : e.op = "rename" => parent(e.dst) = parent(e.path)

\* the file name is r.<rx>.<rz>.mca
IsRName(name, rx, rz) == file_name(name) = RName(rx, rz)
RCoords == -2..2

\* the local chunk of a slot
LocalOf(slot) == <<slot % 32, slot \div 32>>

\* k is the return of a call on a region file that keeps its chunks in
\* external files
NamedCall(k) ==
    /\ McaCall(k)
    /\ \E x \in NamedRegions : x.name = k.task /\ x.r.content = fs_file(k.before.world, k.task).img

\* the derivation for the region file of k gives, for the chunk of every
\* slot, c.<rx*32+x>.<rz*32+z>.mcc in the directory of the region file, and
\* the chunk is read from that file
DerivedFor(k, rx, rz) ==
    \A j \in DOMAIN ItemsBefore(k) :
        \E it \in {ItemsBefore(k)[j]} : \E l \in {LocalOf(it.slot)} :
            /\ external_path(k.task, l) =
                   [ok |-> TRUE,
                    path |-> SubSeq(k.task, 1, LastSlash(k.task)) \o <<99, Dot>>
                                \o format_i64(rx * 32 + l[1]) \o <<Dot>>
                                \o format_i64(rz * 32 + l[2]) \o <<Dot, 109, 99, 99>>]
            /\ (k.task = RegionName /\ l = <<0, 0>>) =>
                   external_path(k.task, l).path
                       = <<99, Dot, 45, 51, 50, Dot, 45, 51, 50, Dot, 109, 99, 99>>
            /\ it.kind = "chunk" /\ it.chunk.external /\ it.chunk.location = l
            /\ \E f \in k.before.files :
                   f.at = <<rx * 32 + l[1], rz * 32 + l[2]>>

HasCoords(name) ==
    \E q \in {split(file_name(name), Dot)} :
        /\ Len(q) >= 3
        /\ \A i \in 2..3 :
              \E d \in {IF q[i] # <<>> /\ q[i][1] \in {43, 45} THEN Tail(q[i]) ELSE q[i]} :
                  d # <<>> /\ \A c \in 1..Len(d) : d[c] \in 48..57

ResultsOf(i) == {k \in results : k.worker = i}

\* stat before the call of k
StatBefore(k) ==
    IF k.pos = 1 THEN 0
    ELSE (CHOOSE j \in ResultsOf(k.worker) : j.pos = k.pos - 1).stat

\* how many callback invocations of remap_file on the file of k can have
\* returned Some: those of the content, and those of the path when the
\* content was rewritten
SomeOf(k) ==
    LET f  == fs_file(k.before.world, k.task)
        nm == stat(visit_text(k.task, cb).calls)
    IN  IF extension(k.task) \in text_ext
        THEN {stat(visit_text(f.bytes, cb).calls) + nm}
        ELSE {stat(m.calls) + (IF m.st = "ok" THEN nm ELSE 0) :
                 m \in visit_loop(visit_root([nbt |-> f.bytes, cursor |-> 0, stack |-> <<>>,
                                              calls |-> <<>>, st |-> "run"], cb), cb)}

\* the thread of worker i has returned
Ended(i) == workers[i].pc = "next" /\ workers[i].pos > Len(queue[i])

\* remap_file was called once for each task of the shard so far, in the
\* order of the shard, whatever the calls before returned
ShardInOrder(i) ==
    /\ workers[i].pos \in 1..(Len(queue[i]) + 1)
    /\ \A q \in 1..Len(queue[i]) :
          Cardinality({k \in ResultsOf(i) : k.pos = q}) = (IF q < workers[i].pos THEN 1 ELSE 0)
    /\ \A k \in ResultsOf(i) : k.pos \in 1..Len(queue[i]) /\ k.task = queue[i][k.pos]

\* stat counts the callback invocations of the calls that returned Some
StatCounts(i) ==
    /\ \A k \in ResultsOf(i) : (~k.hit /\ k.ret # "panic") => k.stat - StatBefore(k) \in SomeOf(k)
    /\ workers[i].pc = "next" =>
          workers[i].stat = (IF workers[i].pos = 1 THEN 0
                             ELSE (CHOOSE j \in ResultsOf(i) : j.pos = workers[i].pos - 1).stat)

RunsShard ==
    \A i \in DOMAIN workers : ShardInOrder(i) /\ StatCounts(i)

\* the thread of worker i can take a step: the guards of Begin, Read,
\* Content and Rename, and an outcome for Content to take
CanStep(i) ==
    \/ workers[i].pc = "next" /\ workers[i].pos <= Len(queue[i])
    \/ workers[i].pc \in {"read", "rename"}
    \/ /\ workers[i].pc = "content"
       /\ extension(Task(i)) \in {ExtDat, ExtNbt} => remap_dat(workers[i].buf, cb) # {}

\* the steps a thread has left at most: four for each task of the shard
\* that has not begun, and the rest of the call it is in
StepsLeft(w, len) ==
    IF w.pc = "dead" THEN 0
    ELSE 4 * (len - w.pos)
         + (CASE w.pc = "next" -> 4 [] w.pc = "read" -> 3
              [] w.pc = "content" -> 2 [] w.pc = "rename" -> 1)

\* a step is a step of one thread, which has one step less left at least
Advance ==
    \E i \in DOMAIN workers :
        /\ StepsLeft(workers'[i], Len(queue[i])) < StepsLeft(workers[i], Len(queue[i]))
        /\ \A j \in DOMAIN workers \ {i} :
              StepsLeft(workers'[j], Len(queue[j])) = StepsLeft(workers[j], Len(queue[j]))

\* a call of the worker panicked and ended the thread
Panicked(i) ==
    /\ workers[i].pc = "dead"
    /\ \E k \in ResultsOf(i) : k.pos = workers[i].pos - 1 /\ k.ret = "panic"

SectorsOf(slot) == SlotOffset(slot) .. (SlotOffset(slot) + SlotCount(slot) - 1)

\* remap.rs 26-33: every write goes to a later slot than the one before it
InSlotOrder ==
    \A i, j \in 1..Len(writes) :
        i < j => SlotOf(writes[i].chunk.location) < SlotOf(writes[j].chunk.location)

\* C40: after successful writes on a new region the sector ranges of two
\* distinct populated slots are disjoint and none holds header sector 0 or 1;
\* when the writes went in increasing slot order the offsets increase with
\* the slot
C40_NoOverlap ==
    AllOk =>
        /\ \A s, t \in Populated(content) :
               s # t => SectorsOf(s) \cap SectorsOf(t) = {}
        /\ \A s \in Populated(content) : SectorsOf(s) \cap {0, 1} = {}
        /\ InSlotOrder =>
               \A s, t \in Populated(content) :
                   s < t => SlotOffset(s) < SlotOffset(t)

\* slot 0 and then slot 1023 written, one of them with 255 sectors
C40_Witness ==
    /\ AllOk /\ Len(writes) = 2 /\ InSlotOrder
    /\ Populated(content) = {0, 1023}
    /\ SlotCount(0) = 255 /\ SlotOffset(0) = 2
    /\ SlotOffset(1023) = 257

\* a slot written again after another slot: the ranges stay apart, and
\* the offsets no longer follow the slot order
C40_RewriteWitness ==
    /\ AllOk /\ Len(writes) = 3 /\ ~InSlotOrder
    /\ Populated(content) = {0, 1023}
    /\ SlotOffset(0) > SlotOffset(1023)
    /\ SectorsOf(0) \cap SectorsOf(1023) = {}

=============================================================================
